---------------------------- MODULE Spec2Model ----------------------------
(***************************************************************************)
(* Model of the NovaBot knowledge-base tools: the management tool          *)
(* (scripts/manage_knowledge_base.py) and the validator                    *)
(* (scripts/validate_knowledge_base.py) working on one directory of CSV    *)
(* corpora.                                                                *)
(*                                                                         *)
(* A Python str is a sequence of one-character strings (<<"a", " ">> is    *)
(* "a "), so that strip, lower, split and join are computed, not assumed.  *)
(* A CSV file is its header (column names) and its data rows (cells); an   *)
(* entry is the dict csv.DictReader builds from a row.                     *)
(***************************************************************************)
EXTENDS Integers, Sequences, FiniteSets, TLC

VARIABLES
    disk,      \* file name -> file: the knowledge base directory
    input,     \* the files the last operation read, as they were when it started
    last,      \* what the last operation was given, returned and wrote
    call       \* the last call of a text function: its argument and its result

vars == <<disk, input, last, call>>

----------------------------------------------------------------------------
(* Bounds of the model                                                     *)

MaxRowsA == 1      \* data rows of corpus "a.csv" in an initial directory
MaxRowsB == 3      \* data rows of corpus "b.csv" in an initial directory
MaxRepairRows == 2 \* data rows of "b.csv" in the directories repair is run on
MaxFileRows == 2   \* data rows of a corpus in a directory with malformed files
MaxTextLen == 3    \* characters of a text given to fix_text
MaxParagraphLen == 4   \* characters of a body text given to the answer formatter
MaxWords == 2      \* words of the value that follows a label in a text blob
MaxInputRows == 2      \* data rows of a file in the directories with input errors

----------------------------------------------------------------------------
(* Python text                                                             *)

Range(s) == {s[i] : i \in 1..Len(s)}

Min(S) == CHOOSE x \in S : \A y \in S : x <= y

\* The value csv.DictReader gives a column that a short row has no cell for.
\* It is not a str: calling .strip() on it raises AttributeError.
None == <<"None">>

IsSpace(c) == c \in {" ", "\t", "\n", "\r"}

RECURSIVE LStrip(_)
LStrip(s) == IF s # <<>> /\ IsSpace(Head(s)) THEN LStrip(Tail(s)) ELSE s

RECURSIVE RStrip(_)
RStrip(s) ==
    IF s # <<>> /\ IsSpace(s[Len(s)]) THEN RStrip(SubSeq(s, 1, Len(s) - 1)) ELSE s

\* str.strip()
strip(s) == RStrip(LStrip(s))

ToLower ==
    ("A" :> "a") @@ ("B" :> "b") @@ ("C" :> "c") @@ ("D" :> "d") @@ ("E" :> "e")
    @@ ("F" :> "f") @@ ("G" :> "g") @@ ("H" :> "h") @@ ("I" :> "i") @@ ("J" :> "j")
    @@ ("K" :> "k") @@ ("L" :> "l") @@ ("M" :> "m") @@ ("N" :> "n") @@ ("O" :> "o")
    @@ ("P" :> "p") @@ ("Q" :> "q") @@ ("R" :> "r") @@ ("S" :> "s") @@ ("T" :> "t")
    @@ ("U" :> "u") @@ ("V" :> "v") @@ ("W" :> "w") @@ ("X" :> "x") @@ ("Y" :> "y")
    @@ ("Z" :> "z")

LowerChar(c) == IF c \in DOMAIN ToLower THEN ToLower[c] ELSE c

\* str.lower()
RECURSIVE lower(_)
lower(s) == IF s = <<>> THEN <<>> ELSE <<LowerChar(Head(s))>> \o lower(Tail(s))

\* str.split(sep): always at least one part; "".split(",") is [""].
RECURSIVE split(_, _)
split(s, sep) ==
    IF \E i \in 1..Len(s) : s[i] = sep
    THEN LET i == Min({j \in 1..Len(s) : s[j] = sep})
         IN  <<SubSeq(s, 1, i - 1)>> \o split(SubSeq(s, i + 1, Len(s)), sep)
    ELSE <<s>>

\* sep.join(parts)
RECURSIVE join(_, _)
join(parts, sep) ==
    IF parts = <<>> THEN <<>>
    ELSE IF Len(parts) = 1 THEN parts[1]
    ELSE parts[1] \o <<sep>> \o join(Tail(parts), sep)

\* list.remove at a 1-based position: del lst[i - 1]
DelAt(s, i) == SubSeq(s, 1, i - 1) \o SubSeq(s, i + 1, Len(s))

\* dict.get(key, '')
get(entry, key) == IF key \in DOMAIN entry THEN entry[key] ELSE <<>>

----------------------------------------------------------------------------
(* Corpus store: load_csv_file, save_csv_file, get_all_entries             *)

required_fields == {"question", "answer", "category", "tags", "priority"}

valid_priorities == {<<"h","i","g","h">>, <<"m","e","d","i","u","m">>, <<"l","o","w">>}

fieldnames == <<"question", "answer", "category", "tags", "priority">>

\* The file names of the directory, and the order glob("*.csv") lists them in.
Names == {"a.csv", "b.csv", "m.csv"}

ScanOrder == <<"a.csv", "b.csv", "m.csv">>

NoFile == [exists |-> FALSE, readable |-> FALSE, hdr |-> <<>>, rows |-> <<>>]

\* open(path, 'w') followed by nothing: a file of zero bytes, without a header.
ZeroBytes == [exists |-> TRUE, readable |-> TRUE, hdr |-> <<>>, rows |-> <<>>]

\* A file that open() or the first read raises on (no permission, or bytes
\* that are not UTF-8); it is not of size zero.
Unreadable == [exists |-> TRUE, readable |-> FALSE, hdr |-> <<>>, rows |-> <<>>]

ColumnOf(hdr, k) == Min({i \in 1..Len(hdr) : hdr[i] = k})

\* csv.DictReader: one dict per non-blank row, keyed by the header; a row
\* shorter than the header has None for the columns it lacks.
DictRow(hdr, row) ==
    [k \in Range(hdr) |->
        IF ColumnOf(hdr, k) <= Len(row) THEN row[ColumnOf(hdr, k)] ELSE None]

RECURSIVE DictRows(_, _)
DictRows(hdr, rows) ==
    IF rows = <<>> THEN <<>>
    ELSE (IF Head(rows) # <<>> THEN <<DictRow(hdr, Head(rows))>> ELSE <<>>)
         \o DictRows(hdr, Tail(rows))

\* A missing or unreadable file raises inside the try block: no entries.
load_csv_file(file) ==
    IF ~file.exists \/ ~file.readable \/ file.hdr = <<>> THEN <<>>
    ELSE DictRows(file.hdr, file.rows)

\* csv.DictWriter._dict_to_list: the five columns in order, '' for a missing
\* key or None; a key outside fieldnames raises ValueError.
Cell(entry, k) == IF k \in DOMAIN entry /\ entry[k] # None THEN entry[k] ELSE <<>>

WriteRow(entry) ==
    <<Cell(entry, "question"), Cell(entry, "answer"), Cell(entry, "category"),
      Cell(entry, "tags"), Cell(entry, "priority")>>

RECURSIVE WriteRows(_, _)
WriteRows(entries, n) ==
    IF n = 0 \/ entries = <<>> THEN <<>>
    ELSE <<WriteRow(Head(entries))>> \o WriteRows(Tail(entries), n - 1)

Writable(entry) == DOMAIN entry \subseteq Range(fieldnames)

\* The header is written only for a non-empty list; rows are written up to
\* the first one that raises. Returns the file left behind and the status.
save_csv_file(entries) ==
    IF entries = <<>> THEN [ok |-> TRUE, file |-> ZeroBytes]
    ELSE LET bad == {i \in 1..Len(entries) : ~Writable(entries[i])}
             n   == IF bad = {} THEN Len(entries) ELSE Min(bad) - 1
         IN  [ok   |-> bad = {},
              file |-> [exists |-> TRUE, readable |-> TRUE, hdr |-> fieldnames,
                        rows |-> WriteRows(entries, n)]]

\* get_all_entries: the dict has a key only for a file with at least one entry.
get_all_entries(d) ==
    ("a.csv" :> load_csv_file(d["a.csv"])) @@ ("b.csv" :> load_csv_file(d["b.csv"]))
    @@ ("m.csv" :> load_csv_file(d["m.csv"]))

Keys(all) == {f \in Names : all[f] # <<>>}

----------------------------------------------------------------------------
(* Duplicate detection: KnowledgeBaseManager.find_duplicates               *)

\* The normalized question of an entry: entry.get('question', '').strip().lower()
NormQ(entry) == lower(strip(get(entry, "question")))

\* The (normalized question, "file:row") pairs of one file, rows counted from
\* `first`; entries with an empty normalized question are left out.
RECURSIVE FileLocsWithBlank(_, _, _, _)
FileLocsWithBlank(f, entries, i, first) ==
    IF i > Len(entries) THEN <<>>
    ELSE <<[q |-> NormQ(entries[i]), loc |-> <<f, first + i - 1>>]>>
         \o FileLocsWithBlank(f, entries, i + 1, first)

RECURSIVE FileLocs(_, _, _, _)
FileLocs(f, entries, i, first) ==
    IF i > Len(entries) THEN <<>>
    ELSE (IF NormQ(entries[i]) # <<>>
          THEN <<[q |-> NormQ(entries[i]), loc |-> <<f, first + i - 1>>]>>
          ELSE <<>>)
         \o FileLocs(f, entries, i + 1, first)

RECURSIVE ScanLocs(_, _, _)
ScanLocs(all, order, first) ==
    IF order = <<>> THEN <<>>
    ELSE FileLocs(Head(order), all[Head(order)], 1, first)
         \o ScanLocs(all, Tail(order), first)

\* seen_questions[question].append(location): a dict in insertion order.
AddLoc(seen, l) ==
    IF \E k \in 1..Len(seen) : seen[k].q = l.q
    THEN LET k == CHOOSE k \in 1..Len(seen) : seen[k].q = l.q
         IN  [seen EXCEPT ![k].locs = Append(@, l.loc)]
    ELSE Append(seen, [q |-> l.q, locs |-> <<l.loc>>])

RECURSIVE SeenQuestions(_, _)
SeenQuestions(locs, seen) ==
    IF locs = <<>> THEN seen
    ELSE SeenQuestions(Tail(locs), AddLoc(seen, Head(locs)))

\* The groups with more than one location, in first-seen order of the question.
find_duplicates(d) ==
    SelectSeq(SeenQuestions(ScanLocs(get_all_entries(d), ScanOrder, 1), <<>>),
              LAMBDA g : Len(g.locs) > 1)

\* .strip() on the None of a short row raises AttributeError.
QuestionRaises(all) ==
    \E f \in Names : \E i \in 1..Len(all[f]) : get(all[f][i], "question") = None

----------------------------------------------------------------------------
(* Duplicate removal: KnowledgeBaseManager.remove_duplicates               *)

\* The dry_run tests (if dry_run: report / if not dry_run: save)
AppliesAlways(dry_run) == TRUE

Applies(dry_run) == ~dry_run

\* One location of locations[1:]: the row number is the one recorded by
\* find_duplicates, applied to the list as it is now.
RemoveLocation(st, loc, dry_run) ==
    IF loc[1] \in st.keys /\ 1 <= loc[2] /\ loc[2] <= Len(st.all[loc[1]])
    THEN IF Applies(dry_run)
         THEN [st EXCEPT !.all[loc[1]] = DelAt(@, loc[2]),
                         !.modified = @ \cup {loc[1]}]
         ELSE st
    ELSE st

RECURSIVE RemoveLocations(_, _, _)
RemoveLocations(st, locs, dry_run) ==
    IF locs = <<>> THEN st
    ELSE RemoveLocations(RemoveLocation(st, Head(locs), dry_run), Tail(locs), dry_run)

\* locations[1:] keeps the first occurrence of a group.
RemovedOfAllButLast(locations) == SubSeq(locations, 1, Len(locations) - 1)

RemovedOf(locations) == Tail(locations)

RECURSIVE RemoveGroups(_, _, _)
RemoveGroups(st, groups, dry_run) ==
    IF groups = <<>> THEN st
    ELSE RemoveGroups(RemoveLocations(st, RemovedOf(Head(groups).locs), dry_run),
                      Tail(groups), dry_run)

\* for filename in modified_files: save, and return False at the first failure.
\* `order` is the order the set is iterated in.
RECURSIVE SaveModified(_, _, _)
SaveModified(st, order, all) ==
    IF order = <<>> \/ ~st.ok THEN st
    ELSE LET s == save_csv_file(all[Head(order)])
         IN  SaveModified([disk    |-> [st.disk EXCEPT ![Head(order)] = s.file],
                           written |-> st.written \cup {Head(order)},
                           ok      |-> s.ok],
                          Tail(order), all)

Orders(S) ==
    {o \in UNION {[1..n -> S] : n \in 0..Cardinality(S)} :
        /\ Len(o) = Cardinality(S)
        /\ \A i, j \in 1..Len(o) : i # j => o[i] # o[j]}

\* The result of remove_duplicates(dry_run) on directory d; `order` is the
\* order in which the set modified_files is iterated.
remove_duplicates(d, dry_run, order) ==
    LET duplicates == find_duplicates(d)
        all == get_all_entries(d)
        st  == RemoveGroups([all |-> all, keys |-> Keys(all), modified |-> {}],
                            duplicates, dry_run)
        sv  == SaveModified([disk |-> d, written |-> {}, ok |-> TRUE],
                            SelectSeq(order, LAMBDA f : f \in st.modified), st.all)
    IN  IF QuestionRaises(all)
        THEN [disk |-> d, ret |-> "AttributeError", written |-> {}, groups |-> <<>>]
        ELSE IF duplicates = <<>>
        THEN [disk |-> d, ret |-> "True", written |-> {}, groups |-> duplicates]
        ELSE IF Applies(dry_run) /\ st.modified # {}
        THEN [disk |-> sv.disk, ret |-> IF sv.ok THEN "True" ELSE "False",
              written |-> sv.written, groups |-> duplicates]
        ELSE [disk |-> d, ret |-> "True", written |-> {}, groups |-> duplicates]

----------------------------------------------------------------------------
(* Validation and repair: KnowledgeBaseManager.validate_and_fix            *)

general == <<"g","e","n","e","r","a","l">>

medium == <<"m","e","d","i","u","m">>

\* entry[key] = value
SetItem(entry, key, value) ==
    [k \in DOMAIN entry \cup {key} |-> IF k = key THEN value ELSE entry[k]]

\* [tag.strip() for tag in tags_str.split(',') if tag.strip()]
RECURSIVE StripNonBlank(_)
StripNonBlank(parts) ==
    IF parts = <<>> THEN <<>>
    ELSE (IF strip(Head(parts)) # <<>> THEN <<strip(Head(parts))>> ELSE <<>>)
         \o StripNonBlank(Tail(parts))

cleaned_tags(tags_str) == join(StripNonBlank(split(tags_str, ",")), ",")

\* The four checks of one entry, in the order of the loop body. Each yields
\* the entry after it and whether it found something to fix.
CategoryEmpty(entry) == strip(get(entry, "category")) = <<>>

PriorityEmpty(entry) == strip(get(entry, "priority")) = <<>>

PriorityInvalid(entry) ==
    /\ lower(strip(get(entry, "priority"))) # <<>>
    /\ lower(strip(get(entry, "priority"))) \notin valid_priorities

TagsMalformed(entry) ==
    /\ strip(get(entry, "tags")) # <<>>
    /\ cleaned_tags(strip(get(entry, "tags"))) # strip(get(entry, "tags"))

\* The fix tests (if fix: repair / if fix and file_modified: save)
FixesAlways(fix) == TRUE

Fixes(fix) == fix

FixCategoryUnlessBlank(entry, fix) ==
    IF get(entry, "category") = <<>> /\ Fixes(fix)
    THEN SetItem(entry, "category", general) ELSE entry

FixCategory(entry, fix) ==
    IF CategoryEmpty(entry) /\ Fixes(fix)
    THEN SetItem(entry, "category", general) ELSE entry

FixEmptyPriority(entry, fix) ==
    IF PriorityEmpty(entry) /\ Fixes(fix)
    THEN SetItem(entry, "priority", medium) ELSE entry

FixInvalidPriorityToNormal(entry, fix) ==
    IF PriorityInvalid(entry) /\ Fixes(fix)
    THEN SetItem(entry, "priority", <<"n","o","r","m","a","l">>) ELSE entry

FixInvalidPriority(entry, fix) ==
    IF PriorityInvalid(entry) /\ Fixes(fix)
    THEN SetItem(entry, "priority", medium) ELSE entry

FixTags(entry, fix) ==
    IF TagsMalformed(entry) /\ Fixes(fix)
    THEN SetItem(entry, "tags", cleaned_tags(strip(get(entry, "tags")))) ELSE entry

\* .strip() on a None value raises AttributeError (a short row).
EntryRaises(entry) ==
    \E k \in {"category", "priority", "tags"} : get(entry, k) = None

\* One pass of the loop body over one entry: the entry afterwards, whether a
\* finding was made (fixed when fix, reported otherwise).
CheckEntry(entry, fix) ==
    LET e1 == FixCategory(entry, fix)
        e2 == FixEmptyPriority(e1, fix)
        e3 == FixInvalidPriority(e2, fix)
        e4 == FixTags(e3, fix)
    IN  [entry |-> e4,
         found |-> \/ CategoryEmpty(entry) \/ PriorityEmpty(e1)
                   \/ PriorityInvalid(e2)  \/ TagsMalformed(e3)]

\* The entries of one file, in order, up to the first one that raises.
RECURSIVE CheckEntries(_, _, _)
CheckEntries(entries, fix, acc) ==
    IF entries = <<>> THEN acc
    ELSE IF EntryRaises(Head(entries)) THEN [acc EXCEPT !.raised = TRUE]
    ELSE LET c == CheckEntry(Head(entries), fix)
         IN  CheckEntries(Tail(entries), fix,
                          [entries |-> Append(acc.entries, c.entry),
                           found   |-> acc.found \/ c.found,
                           raised  |-> FALSE])

\* if fix and file_modified: save
SavesEveryFile(fix, file_modified) == Fixes(fix)

SavesFile(fix, file_modified) == Fixes(fix) /\ file_modified

\* The files of all_entries in order. status is "run" until a save fails
\* ("False") or an entry raises ("AttributeError"); the loop stops there.
RECURSIVE CheckFiles(_, _, _, _)
CheckFiles(st, order, all, fix) ==
    IF order = <<>> \/ st.status # "run" THEN st
    ELSE IF Head(order) \notin Keys(all) THEN CheckFiles(st, Tail(order), all, fix)
    ELSE LET f  == Head(order)
             c  == CheckEntries(all[f], fix,
                                [entries |-> <<>>, found |-> FALSE, raised |-> FALSE])
             file_modified == Fixes(fix) /\ c.found
             s  == save_csv_file(c.entries)
             st1 == [st EXCEPT !.modified = IF file_modified THEN @ \cup {f} ELSE @,
                               !.has_issues = @ \/ (~Fixes(fix) /\ c.found)]
         IN  IF c.raised
             THEN [st1 EXCEPT !.status = "AttributeError"]
             ELSE IF SavesFile(fix, file_modified)
             THEN CheckFiles([st1 EXCEPT !.disk[f] = s.file,
                                         !.written = @ \cup {f},
                                         !.status = IF s.ok THEN "run" ELSE "False"],
                             Tail(order), all, fix)
             ELSE CheckFiles(st1, Tail(order), all, fix)

\* The result of validate_and_fix(fix) on directory d.
validate_and_fix(d, fix) ==
    LET st == CheckFiles([disk |-> d, written |-> {}, modified |-> {},
                          has_issues |-> FALSE, status |-> "run"],
                         ScanOrder, get_all_entries(d), fix)
    IN  [disk     |-> st.disk,
         written  |-> st.written,
         modified |-> st.modified,
         ret      |-> IF st.status # "run" THEN st.status
                      ELSE IF ~Fixes(fix) /\ st.has_issues THEN "False"
                      ELSE "True"]

----------------------------------------------------------------------------
(* Merge: KnowledgeBaseManager.merge_files                                 *)

\* if remove_duplicates and question in seen_questions: continue
Skips(question, seen, remove_dups) == remove_dups /\ question \in seen

\* if question: seen_questions.add(question)
RemembersAll(question, seen) == seen \cup {question}

Remembers(question, seen) == IF question # <<>> THEN seen \cup {question} ELSE seen

RECURSIVE MergeEntries(_, _, _)
MergeEntries(entries, acc, remove_dups) ==
    IF entries = <<>> THEN acc
    ELSE IF get(Head(entries), "question") = None
    THEN [acc EXCEPT !.status = "AttributeError"]
    ELSE IF Skips(NormQ(Head(entries)), acc.seen, remove_dups)
    THEN MergeEntries(Tail(entries), acc, remove_dups)
    ELSE MergeEntries(Tail(entries),
                      [acc EXCEPT !.out = Append(@, Head(entries)),
                                  !.seen = Remembers(NormQ(Head(entries)), @)],
                      remove_dups)

RECURSIVE MergeSources(_, _, _, _)
MergeSources(d, source_files, acc, remove_dups) ==
    IF source_files = <<>> \/ acc.status # "run" THEN acc
    ELSE IF ~d[Head(source_files)].exists THEN [acc EXCEPT !.status = "False"]
    ELSE MergeSources(d, Tail(source_files),
                      MergeEntries(load_csv_file(d[Head(source_files)]), acc, remove_dups),
                      remove_dups)

\* The result of merge_files(source_files, target_file, remove_duplicates).
merge_files(d, source_files, target_file, remove_dups) ==
    LET acc == MergeSources(d, source_files,
                            [out |-> <<>>, seen |-> {}, status |-> "run"], remove_dups)
        s   == save_csv_file(acc.out)
    IN  IF acc.status # "run"
        THEN [disk |-> d, written |-> {}, ret |-> acc.status]
        ELSE [disk |-> [d EXCEPT ![target_file] = s.file],
              written |-> {target_file},
              ret |-> IF s.ok THEN "True" ELSE "False"]

----------------------------------------------------------------------------
(* The validator: KnowledgeBaseValidator                                   *)

MaxQuestionLen == 500

MinQuestionLen == 10

MaxAnswerLen == 5000

MinAnswerLen == 20

MaxTags == 10

\* validate_file_structure: the error it logs, or "" for a valid file.
StructureError(file) ==
    IF ~file.exists THEN "does not exist"
    ELSE IF file.readable /\ file.hdr = <<>> /\ file.rows = <<>> THEN "empty"
    ELSE IF ~file.readable THEN "failed to read"
    ELSE IF file.hdr = <<>> THEN "no header"
    ELSE IF ~(required_fields \subseteq Range(file.hdr)) THEN "missing fields"
    ELSE ""

\* (A structure check that forgets the required columns.)
ValidatesAnyHeader(file) == StructureError(file) \in {"", "missing fields"}

validate_file_structure(file) == StructureError(file) = ""

\* re.match(r'^[a-zA-Z0-9_-]+$', category), over the characters of the model
CategoryWellFormed(category) ==
    category # <<>> /\ \A i \in 1..Len(category) : category[i] \notin {" ", ","}

\* The errors and warnings validate_content_quality logs for one row.
RowErrors(row) ==
    {"empty " \o f : f \in {g \in required_fields : strip(get(row, g)) = <<>>}}
    \cup (IF /\ lower(strip(get(row, "priority"))) # <<>>
             /\ lower(strip(get(row, "priority"))) \notin valid_priorities
          THEN {"invalid priority"} ELSE {})
    \cup (IF /\ strip(get(row, "tags")) # <<>>
             /\ \E t \in Range(split(strip(get(row, "tags")), ",")) : strip(t) = <<>>
          THEN {"empty tags found"} ELSE {})

RowWarnings(row) ==
    (IF Len(strip(get(row, "question"))) > MaxQuestionLen THEN {"question long"}
     ELSE IF Len(strip(get(row, "question"))) < MinQuestionLen THEN {"question short"}
     ELSE {})
    \cup (IF Len(strip(get(row, "answer"))) > MaxAnswerLen THEN {"answer long"}
          ELSE IF Len(strip(get(row, "answer"))) < MinAnswerLen THEN {"answer short"}
          ELSE {})
    \cup (IF /\ strip(get(row, "tags")) # <<>>
             /\ Len(split(strip(get(row, "tags")), ",")) > MaxTags
          THEN {"too many tags"} ELSE {})
    \cup (IF /\ strip(get(row, "category")) # <<>>
             /\ ~CategoryWellFormed(strip(get(row, "category")))
          THEN {"category format"} ELSE {})

\* A row with a None value makes .strip() raise; the except clause of the
\* caller logs one error for the file and the loop over its rows ends. (The
\* empty-field errors logged for that row before the raise depend on the
\* iteration order of the required_fields set and are left out.)
RowRaises(row) == \E k \in required_fields : get(row, k) = None

\* validate_content_quality: rows read (total), rows valid, errors, warnings.
\* Rows are numbered from 2 (the header is line 1).
RECURSIVE ContentQuality(_, _, _, _)
ContentQuality(f, rows, i, acc) ==
    IF i > Len(rows) THEN acc
    ELSE IF RowRaises(rows[i])
    THEN [acc EXCEPT !.total = @ + 1,
                     !.errors = @ \cup {<<f, 0, "failed to validate content">>}]
    ELSE ContentQuality(f, rows, i + 1,
            [total    |-> acc.total + 1,
             valid    |-> acc.valid + (IF RowErrors(rows[i]) = {} THEN 1 ELSE 0),
             errors   |-> acc.errors \cup {<<f, i + 1, e>> : e \in RowErrors(rows[i])},
             warnings |-> acc.warnings \cup {<<f, i + 1, w>> : w \in RowWarnings(rows[i])}])

validate_content_quality(f, file) ==
    ContentQuality(f, load_csv_file(file), 1,
                   [total |-> 0, valid |-> 0, errors |-> {}, warnings |-> {}])

\* check_for_duplicates: a group is opened when a question is met again, so
\* the groups are in the order of their second occurrence.
AddDuplicate(st, l) ==
    IF \E k \in 1..Len(st.first) : st.first[k].q = l.q
    THEN IF \E k \in 1..Len(st.duplicates) : st.duplicates[k].q = l.q
         THEN LET k == CHOOSE k \in 1..Len(st.duplicates) : st.duplicates[k].q = l.q
              IN  [st EXCEPT !.duplicates[k].locs = Append(@, l.loc)]
         ELSE LET k == CHOOSE k \in 1..Len(st.first) : st.first[k].q = l.q
              IN  [st EXCEPT !.duplicates =
                       Append(@, [q |-> l.q, locs |-> <<st.first[k].loc, l.loc>>])]
    ELSE [st EXCEPT !.first = Append(@, l)]

RECURSIVE AddDuplicates(_, _)
AddDuplicates(st, locs) ==
    IF locs = <<>> THEN st ELSE AddDuplicates(AddDuplicate(st, Head(locs)), Tail(locs))

\* The rows of a file before the first one whose question is None.
RECURSIVE UntilRaise(_)
UntilRaise(rows) ==
    IF rows = <<>> \/ get(Head(rows), "question") = None THEN <<>>
    ELSE <<Head(rows)>> \o UntilRaise(Tail(rows))

check_for_duplicates(d, files) ==
    LET all == get_all_entries(d)
    IN  AddDuplicates([first |-> <<>>, duplicates |-> <<>>],
                      ScanLocs(("a.csv" :> UntilRaise(all["a.csv"]))
                               @@ ("b.csv" :> UntilRaise(all["b.csv"]))
                               @@ ("m.csv" :> UntilRaise(all["m.csv"])), files, 2)
                     ).duplicates

\* The files the except clauses of check_for_duplicates and
\* generate_statistics log an error for.
FileRaises(entries, fields) ==
    \E i \in 1..Len(entries) : \E k \in fields : get(entries[i], k) = None

\* The loop of validate_all over csv_files, in glob order.
RECURSIVE ValidateFiles(_, _, _)
ValidateFiles(d, order, acc) ==
    IF order = <<>> THEN acc
    ELSE IF ~d[Head(order)].exists THEN ValidateFiles(d, Tail(order), acc)
    ELSE IF ~validate_file_structure(d[Head(order)])
    THEN ValidateFiles(d, Tail(order),
            [acc EXCEPT !.errors = @ \cup {<<Head(order), 0, StructureError(d[Head(order)])>>}])
    ELSE LET f == Head(order)
             q == validate_content_quality(f, d[f])
         IN  ValidateFiles(d, Tail(order),
                [valid_files   |-> Append(acc.valid_files, f),
                 total_entries |-> acc.total_entries + q.total,
                 valid_entries |-> acc.valid_entries + q.valid,
                 errors        |-> acc.errors \cup q.errors,
                 warnings      |-> acc.warnings \cup q.warnings
                     \cup (IF Range(d[f].hdr) \subseteq required_fields THEN {}
                           ELSE {<<f, 0, "extra fields">>})])

\* The result of validate_all() on directory d.
validate_all(d) ==
    LET csv_files  == {f \in Names : d[f].exists}
        v          == ValidateFiles(d, ScanOrder,
                          [valid_files |-> <<>>, total_entries |-> 0, valid_entries |-> 0,
                           errors |-> {}, warnings |-> {}])
        all        == get_all_entries(d)
        duplicates == check_for_duplicates(d, v.valid_files)
        errors ==
            v.errors
            \cup {<<f, 0, "failed to check duplicates">> :
                    f \in {g \in Range(v.valid_files) : FileRaises(all[g], {"question"})}}
            \cup {<<f, 0, "failed to generate stats">> :
                    f \in {g \in Range(v.valid_files) : FileRaises(all[g], required_fields)}}
        warnings ==
            v.warnings \cup {<<"", k, "duplicate question">> : k \in 1..Len(duplicates)}
    IN  IF csv_files = {}
        THEN [ret |-> "False", errors |-> {<<"", 0, "no csv files">>},
              warnings |-> {}, groups |-> <<>>]
        ELSE IF v.valid_files # <<>> /\ v.total_entries = 0
        THEN [ret |-> "ZeroDivisionError", errors |-> errors,
              warnings |-> warnings, groups |-> duplicates]
        ELSE [ret |-> IF errors = {} THEN "True" ELSE "False", errors |-> errors,
              warnings |-> warnings, groups |-> duplicates]

----------------------------------------------------------------------------
(* The character normalizer: CSVEncodingFixer.fix_text                     *)
(* A character outside ASCII is written by its code point, "U+2122".       *)

\* self.character_replacements, in insertion order
character_replacements ==
    << [char |-> "U+00AE", replacement |-> <<"(", "R", ")">>],
       [char |-> "U+2122", replacement |-> <<"(", "T", "M", ")">>],
       [char |-> "U+00A9", replacement |-> <<"(", "C", ")">>],
       [char |-> "U+2018", replacement |-> <<"'">>],
       [char |-> "U+2019", replacement |-> <<"'">>],
       [char |-> "U+201C", replacement |-> <<"\"">>],
       [char |-> "U+201D", replacement |-> <<"\"">>],
       [char |-> "U+2033", replacement |-> <<"\"">>],
       [char |-> "U+2032", replacement |-> <<"'">>],
       [char |-> "U+2013", replacement |-> <<"-">>],
       [char |-> "U+2014", replacement |-> <<"-">>],
       [char |-> "U+2212", replacement |-> <<"-">>],
       [char |-> "U+00A0", replacement |-> <<" ">>],
       [char |-> "U+2009", replacement |-> <<" ">>],
       [char |-> "U+2003", replacement |-> <<" ">>],
       [char |-> "U+2002", replacement |-> <<" ">>],
       [char |-> "U+2022", replacement |-> <<"*">>],
       [char |-> "U+2026", replacement |-> <<".", ".", ".">>],
       [char |-> "U+2010", replacement |-> <<"-">>],
       [char |-> "U+2011", replacement |-> <<"-">>],
       [char |-> "U+20AC", replacement |-> <<"E", "U", "R">>],
       [char |-> "U+00A3", replacement |-> <<"G", "B", "P">>],
       [char |-> "U+00A5", replacement |-> <<"J", "P", "Y">>] >>

\* str.count and str.replace for a one-character pattern
RECURSIVE count(_, _)
count(text, c) ==
    IF text = <<>> THEN 0
    ELSE (IF Head(text) = c THEN 1 ELSE 0) + count(Tail(text), c)

RECURSIVE ReplaceFirstOnly(_, _, _)
ReplaceFirstOnly(text, c, replacement) ==
    IF text = <<>> THEN <<>>
    ELSE IF Head(text) = c THEN replacement \o Tail(text)
    ELSE <<Head(text)>> \o ReplaceFirstOnly(Tail(text), c, replacement)

RECURSIVE replace(_, _, _)
replace(text, c, replacement) ==
    IF text = <<>> THEN <<>>
    ELSE (IF Head(text) = c THEN replacement ELSE <<Head(text)>>)
         \o replace(Tail(text), c, replacement)

\* The loop over the table: rule i applied to the text as fixed so far.
RECURSIVE ApplyRules(_, _, _, _)
ApplyRules(table, i, fixed_text, changes) ==
    IF i > Len(table) THEN [text |-> fixed_text, changes |-> changes]
    ELSE IF table[i].char \in Range(fixed_text)
    THEN ApplyRules(table, i + 1,
                    replace(fixed_text, table[i].char, table[i].replacement),
                    Append(changes, [char |-> table[i].char,
                                     replacement |-> table[i].replacement,
                                     count |-> count(fixed_text, table[i].char)]))
    ELSE ApplyRules(table, i + 1, fixed_text, changes)

FixTextWith(table, text) ==
    IF text = <<>> THEN [text |-> text, changes |-> <<>>]
    ELSE ApplyRules(table, 1, text, <<>>)

\* A table whose em dash becomes an en dash, which an earlier rule matches.
EmDashToEnDash(text) ==
    FixTextWith([character_replacements EXCEPT ![11].replacement = <<"U+2013">>], text)

fix_text(text) == FixTextWith(character_replacements, text)

----------------------------------------------------------------------------
(* The extractor: extract_structured_content (process_knowledge_base.py)   *)
(* The four regular expressions, matched as re.search matches them: the    *)
(* leftmost occurrence of the label at which the rest of the pattern can   *)
(* match, \s* greedy (giving characters back when the rest fails), a lazy  *)
(* group as short as the lookahead allows.                                 *)

Max(S) == CHOOSE x \in S : \A y \in S : x >= y

\* The literal lit (in lower case) matches at position i, ignoring case.
MatchesAt(s, i, lit) ==
    /\ i >= 1 /\ i + Len(lit) - 1 <= Len(s)
    /\ lower(SubSeq(s, i, i + Len(lit) - 1)) = lit

Occurrences(s, lit) == {i \in 1..Len(s) : MatchesAt(s, i, lit)}

\* \s* from position p: the position after the longest run of whitespace.
RECURSIVE SkipSpace(_, _)
SkipSpace(s, p) == IF p <= Len(s) /\ IsSpace(s[p]) THEN SkipSpace(s, p + 1) ELSE p

NotNewline(c) == c \notin {"\n", "\r"}

\* [^\n\r]+ from position q, greedy: the position after the run.
RECURSIVE SkipLine(_, _)
SkipLine(s, q) == IF q <= Len(s) /\ NotNewline(s[q]) THEN SkipLine(s, q + 1) ELSE q

\* $ without re.MULTILINE: the end of the string, or before a final newline.
AtEnd(s, e) == e = Len(s) + 1 \/ (e = Len(s) /\ s[e] = "\n")

TitleLabel == <<"t","i","t","l","e",":">>
DescriptionLabel == <<"d","e","s","c","r","i","p","t","i","o","n",":">>
ProblemLabel == <<"p","r","o","b","l","e","m",":">>
ResolutionLabel == <<"r","e","s","o","l","u","t","i","o","n",":">>

\* Title:\s*([^\n\r]+) tried at a label that ends before p: where the group
\* can start (\s* gives back as little as it must).
TitleStarts(s, p) == {q \in p..SkipSpace(s, p) : q <= Len(s) /\ NotNewline(s[q])}

TitleGroup(s, p) ==
    SubSeq(s, Max(TitleStarts(s, p)), SkipLine(s, Max(TitleStarts(s, p))) - 1)

\* ([^\n\r]*?)(?=Problem:|$) from q: the ends the lookahead accepts.
DescriptionEnds(s, q) ==
    {e \in q..SkipLine(s, q) : MatchesAt(s, e, ProblemLabel) \/ AtEnd(s, e)}

DescriptionStarts(s, p) == {q \in p..SkipSpace(s, p) : DescriptionEnds(s, q) # {}}

DescriptionGroup(s, p) ==
    SubSeq(s, Max(DescriptionStarts(s, p)),
           Min(DescriptionEnds(s, Max(DescriptionStarts(s, p)))) - 1)

\* (.*?)(?=Resolution:|$) with re.DOTALL from q: it always matches.
ProblemGroup(s, p) ==
    LET q == SkipSpace(s, p)
    IN  SubSeq(s, q, Min({e \in q..Len(s) + 1 :
                            MatchesAt(s, e, ResolutionLabel) \/ AtEnd(s, e)}) - 1)

\* (.*?)$ with re.DOTALL from q
ResolutionGroup(s, p) ==
    LET q == SkipSpace(s, p)
    IN  SubSeq(s, q, Min({e \in q..Len(s) + 1 : AtEnd(s, e)}) - 1)

\* The occurrences of a field's label that its pattern matches at, and the
\* group of the match that starts after the label at p.
Found(s, label, field) ==
    {i \in Occurrences(s, label) :
        CASE field = "title"       -> TitleStarts(s, i + Len(label)) # {}
          [] field = "description" -> DescriptionStarts(s, i + Len(label)) # {}
          [] OTHER                 -> TRUE}

Group(s, p, field) ==
    CASE field = "title"       -> TitleGroup(s, p)
      [] field = "description" -> DescriptionGroup(s, p)
      [] field = "problem"     -> ProblemGroup(s, p)
      [] OTHER                 -> ResolutionGroup(s, p)

\* match.group(1).strip() of re.search, '' when nothing matches.
Extracted(s, label, field) ==
    LET found == Found(s, label, field)
    IN  IF found = {} THEN <<>> ELSE strip(Group(s, Min(found) + Len(label), field))

extract_structured_content(content) ==
    [title       |-> Extracted(content, TitleLabel, "title"),
     description |-> Extracted(content, DescriptionLabel, "description"),
     problem     |-> Extracted(content, ProblemLabel, "problem"),
     resolution  |-> Extracted(content, ResolutionLabel, "resolution")]

----------------------------------------------------------------------------
(* The encoding fixer on files: CSVEncodingFixer                           *)

\* csv.DictReader over the open file: no rows for a file without a header.
ReadRows(file) == IF file.hdr = <<>> THEN <<>> ELSE DictRows(file.hdr, file.rows)

\* if field_value: _, changes = fix_text(field_value); if changes: ...
\* (a None or empty cell is not looked at).
HasIssues(value) == value # None /\ value # <<>> /\ fix_text(value).changes # <<>>

RowHasIssues(row) == \E k \in DOMAIN row : HasIssues(row[k])

\* analyze_csv_file: None when open() raises, else the counts of the rows.
analyze_csv_file(file) ==
    IF ~file.exists \/ ~file.readable
    THEN [ok |-> FALSE, total_rows |-> 0, rows_with_issues |-> 0]
    ELSE LET rows == ReadRows(file)
         IN  [ok |-> TRUE, total_rows |-> Len(rows),
              rows_with_issues |-> Cardinality({i \in 1..Len(rows) : RowHasIssues(rows[i])})]

\* fix_csv_file: every non-empty cell through fix_text, written back under
\* the header that was read; the writer turns None into an empty cell.
FixedCell(value) ==
    IF value = None \/ value = <<>> THEN <<>> ELSE fix_text(value).text

fix_csv_file(file) ==
    LET rows == ReadRows(file)
    IN  [exists |-> TRUE, readable |-> TRUE, hdr |-> file.hdr,
         rows |-> [i \in 1..Len(rows) |->
                     [j \in 1..Len(file.hdr) |-> FixedCell(rows[i][file.hdr[j]])]]]

\* process_files: the loop over file_paths. A path that does not exist is
\* reported and passed over; so is a file whose analysis returned None. A
\* file with issues is fixed unless dry_run, after a backup copy of it. (The
\* analysis repeated after a fix only prints.)
RECURSIVE ProcessPaths(_, _, _)
ProcessPaths(st, file_paths, dry_run) ==
    IF file_paths = <<>> THEN st
    ELSE LET f        == Head(file_paths)
             analysis == analyze_csv_file(st.disk[f])
         IN  IF ~st.disk[f].exists
             THEN ProcessPaths([st EXCEPT !.not_found = @ \cup {f}],
                               Tail(file_paths), dry_run)
             ELSE IF ~analysis.ok
             THEN ProcessPaths([st EXCEPT !.not_analyzed = @ \cup {f}],
                               Tail(file_paths), dry_run)
             ELSE IF analysis.rows_with_issues > 0
             THEN ProcessPaths(
                    [st EXCEPT !.analyzed = Append(@, f),
                               !.files_with_issues = @ + 1,
                               !.total_fixes_needed = @ + analysis.rows_with_issues,
                               !.backups = IF dry_run THEN @ ELSE @ \cup {f},
                               !.files_processed = IF dry_run THEN @ ELSE Append(@, f),
                               !.disk[f] = IF dry_run THEN @ ELSE fix_csv_file(@)],
                    Tail(file_paths), dry_run)
             ELSE ProcessPaths([st EXCEPT !.analyzed = Append(@, f)],
                               Tail(file_paths), dry_run)

process_files(d, file_paths, dry_run) ==
    ProcessPaths([disk |-> d, analyzed |-> <<>>, files_with_issues |-> 0,
                  total_fixes_needed |-> 0, files_processed |-> <<>>,
                  not_found |-> {}, not_analyzed |-> {}, backups |-> {}],
                 file_paths, dry_run)

----------------------------------------------------------------------------
(* Documentation synthesis: WebDocumentationProcessor                      *)
(* (process_web_documentation.py)                                          *)

\* The characters of a literal of the source.
Chars(literal) == [i \in 1..Len(literal) |-> SubSeq(literal, i, i)]

UpperChar(c) ==
    IF \E u \in DOMAIN ToLower : ToLower[u] = c
    THEN CHOOSE u \in DOMAIN ToLower : ToLower[u] = c ELSE c

\* str.upper()
RECURSIVE upper(_)
upper(s) == IF s = <<>> THEN <<>> ELSE <<UpperChar(Head(s))>> \o upper(Tail(s))

\* sub in s
In(sub, s) == \E i \in 1..(Len(s) - Len(sub) + 1) : SubSeq(s, i, i + Len(sub) - 1) = sub

\* The if/elif chain of detect_content_type: the markers looked for in
\* content.upper() and the type returned, in the order of the chain.
content_type_rules ==
    << [markers |-> {"OVERVIEW"},               type |-> "overview"],
       [markers |-> {"CONFIGURATION"},          type |-> "configuration"],
       [markers |-> {"INSTALLATION"},           type |-> "installation"],
       [markers |-> {"CONNECTOR"},              type |-> "connector"],
       [markers |-> {"INTEGRATION"},            type |-> "integration"],
       [markers |-> {"MONITOR"},                type |-> "monitoring"],
       [markers |-> {"DASHBOARD"},              type |-> "dashboard"],
       [markers |-> {"TROUBLESHOOT"},           type |-> "troubleshooting"],
       [markers |-> {"SYSTEM ARCHITECTURE"},    type |-> "architecture"],
       [markers |-> {"OOTB", "OUT OF THE BOX"}, type |-> "ootb-assets"],
       [markers |-> {"COST OPTIMIZATION"},      type |-> "cost-optimization"] >>

RECURSIVE FirstRule(_, _, _)
FirstRule(rules, i, content_upper) ==
    IF i > Len(rules) THEN "documentation"
    ELSE IF \E m \in rules[i].markers : In(Chars(m), content_upper) THEN rules[i].type
    ELSE FirstRule(rules, i + 1, content_upper)

\* (The chain with the connector and integration branches exchanged.)
IntegrationBeforeConnector(content) ==
    FirstRule([content_type_rules EXCEPT ![4] = content_type_rules[5],
                                         ![5] = content_type_rules[4]],
              1, upper(content))

detect_content_type(content) == FirstRule(content_type_rules, 1, upper(content))

\* re.sub(r'[®™©]', '', text)
Glyphs == {"U+00AE", "U+2122", "U+00A9"}

RECURSIVE RemoveGlyphs(_)
RemoveGlyphs(s) ==
    IF s = <<>> THEN <<>>
    ELSE (IF Head(s) \in Glyphs THEN <<>> ELSE <<Head(s)>>) \o RemoveGlyphs(Tail(s))

\* re.sub(r'\s+', ' ', text): every run of whitespace becomes one space.
RECURSIVE NormalizeSpaces(_, _)
NormalizeSpaces(s, i) ==
    IF i > Len(s) THEN <<>>
    ELSE IF IsSpace(s[i]) THEN <<" ">> \o NormalizeSpaces(s, SkipSpace(s, i))
    ELSE <<s[i]>> \o NormalizeSpaces(s, i + 1)

\* re.sub(r'\n\s*\n', '\n\n', text): from a newline through the last
\* newline of the whitespace that follows it.
LastNewline(s, i) ==
    LET ends == {j \in (i + 1)..(SkipSpace(s, i + 1) - 1) : s[j] = "\n"}
    IN  IF ends = {} THEN 0 ELSE Max(ends)

RECURSIVE RemoveEmptyLines(_, _)
RemoveEmptyLines(s, i) ==
    IF i > Len(s) THEN <<>>
    ELSE IF s[i] = "\n" /\ LastNewline(s, i) # 0
    THEN <<"\n", "\n">> \o RemoveEmptyLines(s, LastNewline(s, i) + 1)
    ELSE <<s[i]>> \o RemoveEmptyLines(s, i + 1)

\* re.sub(r'\n\s+', '\n', text)
RECURSIVE RemoveLeadingSpaces(_, _)
RemoveLeadingSpaces(s, i) ==
    IF i > Len(s) THEN <<>>
    ELSE IF s[i] = "\n" /\ i < Len(s) /\ IsSpace(s[i + 1])
    THEN <<"\n">> \o RemoveLeadingSpaces(s, SkipSpace(s, i + 1))
    ELSE <<s[i]>> \o RemoveLeadingSpaces(s, i + 1)

\* text.replace('\n', '\n\n')
RECURSIVE DoubleNewlines(_)
DoubleNewlines(s) ==
    IF s = <<>> THEN <<>>
    ELSE (IF Head(s) = "\n" THEN <<"\n", "\n">> ELSE <<Head(s)>>) \o DoubleNewlines(Tail(s))

\* re.sub(r'\n{3,}', '\n\n', text)
RECURSIVE SkipNewlines(_, _)
SkipNewlines(s, i) == IF i <= Len(s) /\ s[i] = "\n" THEN SkipNewlines(s, i + 1) ELSE i

RECURSIVE MaxTwoBreaks(_, _)
MaxTwoBreaks(s, i) ==
    IF i > Len(s) THEN <<>>
    ELSE IF s[i] = "\n" /\ SkipNewlines(s, i) - i >= 3
    THEN <<"\n", "\n">> \o MaxTwoBreaks(s, SkipNewlines(s, i))
    ELSE <<s[i]>> \o MaxTwoBreaks(s, i + 1)

clean_and_format_answer(content) ==
    LET no_glyphs  == RemoveGlyphs(content)
        no_empty   == RemoveEmptyLines(no_glyphs, 1)
        no_leading == RemoveLeadingSpaces(no_empty, 1)
        normalized == NormalizeSpaces(no_leading, 1)
        paragraphs == strip(DoubleNewlines(normalized))
    IN  MaxTwoBreaks(paragraphs, 1)

\* lines = [line.strip() for line in content.split('\n') if line.strip()]
RECURSIVE NonBlankLines(_)
NonBlankLines(lines) ==
    IF lines = <<>> THEN <<>>
    ELSE (IF strip(Head(lines)) # <<>> THEN <<strip(Head(lines))>> ELSE <<>>)
         \o NonBlankLines(Tail(lines))

\* The elif chain of extract_title_and_topic over title.upper().
topic_rules ==
    << [marker |-> "DATADOG",    topic |-> "datadog"],
       [marker |-> "CLOUDWATCH", topic |-> "cloudwatch"],
       [marker |-> "APM",        topic |-> "apm"],
       [marker |-> "MULE",       topic |-> "mulesoft"] >>

RECURSIVE FirstTopic(_, _)
FirstTopic(i, title_upper) ==
    IF i > Len(topic_rules) THEN "integration"
    ELSE IF In(Chars(topic_rules[i].marker), title_upper) THEN topic_rules[i].topic
    ELSE FirstTopic(i + 1, title_upper)

extract_title_and_topic(content) ==
    LET lines == NonBlankLines(split(content, "\n"))
        title == strip(NormalizeSpaces(RemoveGlyphs(lines[1]), 1))
    IN  IF lines = <<>> THEN [title |-> Chars("Documentation"), topic |-> "general"]
        ELSE [title |-> title, topic |-> FirstTopic(1, upper(title))]

\* title.replace("®", "").replace("™", "")
RECURSIVE RemoveMarks(_)
RemoveMarks(s) ==
    IF s = <<>> THEN <<>>
    ELSE (IF Head(s) \in {"U+00AE", "U+2122"} THEN <<>> ELSE <<Head(s)>>)
         \o RemoveMarks(Tail(s))

generate_question_from_content(title, content, content_type) ==
    LET t == RemoveMarks(title)
    IN  CASE content_type = "overview" ->
               Chars("What is ") \o t \o Chars(" and how does it work?")
          [] content_type = "configuration" ->
               IF In(Chars("SERVICE"), upper(t))
               THEN Chars("How do I configure the service for ") \o t \o Chars("?")
               ELSE Chars("How do I configure ") \o t \o Chars("?")
          [] content_type = "installation" ->
               Chars("How do I install ") \o t \o Chars("?")
          [] content_type = "monitoring" ->
               Chars("How do I set up monitoring with ") \o t \o Chars("?")
          [] content_type = "dashboard" ->
               Chars("What dashboards are available for ") \o t \o Chars("?")
          [] content_type = "troubleshooting" ->
               Chars("How do I troubleshoot issues with ") \o t \o Chars("?")
          [] content_type = "architecture" ->
               Chars("What is the system architecture for ") \o t \o Chars("?")
          [] content_type = "ootb-assets" ->
               Chars("What out-of-the-box assets are available for ") \o t \o Chars("?")
          [] content_type = "cost-optimization" ->
               Chars("How can I optimize costs for ") \o t \o Chars("?")
          [] OTHER ->
               Chars("What do I need to know about ") \o t \o Chars("?")

\* self.base_tags
base_tags == <<"datadog", "mulesoft", "documentation">>

\* The technology tags of generate_tags, in the order of the if statements:
\* the keywords looked for in content.lower(), those looked for in
\* title.lower(), and the tag appended.
technology_rules ==
    << [content |-> {"cloudwatch"},    title |-> {"cloudwatch"},    tag |-> "cloudwatch"],
       [content |-> {"apm"},           title |-> {"apm"},           tag |-> "apm"],
       [content |-> {"connector"},     title |-> {"connector"},     tag |-> "connector"],
       [content |-> {"dashboard"},     title |-> {"dashboard"},     tag |-> "dashboard"],
       [content |-> {"monitor"},       title |-> {"monitor"},       tag |-> "monitoring"],
       [content |-> {"installation"},  title |-> {"installation"},  tag |-> "installation"],
       [content |-> {"configuration"}, title |-> {"configuration"}, tag |-> "configuration"],
       [content |-> {"troubleshoot"},  title |-> {"troubleshoot"},  tag |-> "troubleshooting"],
       [content |-> {"architecture"},  title |-> {"architecture"},  tag |-> "architecture"],
       [content |-> {"cost"},          title |-> {"cost"},          tag |-> "cost-optimization"],
       [content |-> {"ootb", "out of the box"}, title |-> {},       tag |-> "ootb"] >>

RECURSIVE TechnologyTags(_, _, _)
TechnologyTags(i, content_lower, title_lower) ==
    IF i > Len(technology_rules) THEN <<>>
    ELSE (IF \/ \E k \in technology_rules[i].content : In(Chars(k), content_lower)
             \/ \E k \in technology_rules[i].title : In(Chars(k), title_lower)
          THEN <<technology_rules[i].tag>> ELSE <<>>)
         \o TechnologyTags(i + 1, content_lower, title_lower)

\* list(dict.fromkeys(tags)): the first occurrence of each tag, in order.
RECURSIVE Unique(_, _)
Unique(tags, seen) ==
    IF tags = <<>> THEN <<>>
    ELSE IF Head(tags) \in seen THEN Unique(Tail(tags), seen)
    ELSE <<Head(tags)>> \o Unique(Tail(tags), seen \cup {Head(tags)})

\* lst[:n]
Take(lst, n) == SubSeq(lst, 1, IF Len(lst) < n THEN Len(lst) ELSE n)

MaxDocTags == 6

\* (generate_tags that cuts the list before it removes the duplicates.)
CutBeforeUnique(shared, title, content, content_type, topic) ==
    LET with_type  == Append(shared, content_type)
        with_topic == IF topic \in Range(with_type) THEN with_type
                      ELSE Append(with_type, topic)
        tags       == with_topic \o TechnologyTags(1, lower(content), lower(title))
    IN  [tags |-> Unique(Take(tags, MaxDocTags), {}), base_tags |-> shared]

\* WebDocumentationProcessor.generate_tags: the list returned and the list
\* self.base_tags holds after the call (the call works on a copy).
web_generate_tags(shared, title, content, content_type, topic) ==
    LET with_type  == Append(shared, content_type)
        with_topic == IF topic \in Range(with_type) THEN with_type
                      ELSE Append(with_type, topic)
        tags       == with_topic \o TechnologyTags(1, lower(content), lower(title))
    IN  [tags |-> Take(Unique(tags, {}), MaxDocTags), base_tags |-> shared]

\* WebDocumentationProcessor.determine_priority
problem_words == {"error", "issue", "problem", "troubleshoot", "fail", "debug"}

web_determine_priority(content_type, content) ==
    IF content_type \in {"overview", "installation", "configuration"} THEN "high"
    ELSE IF \/ content_type = "troubleshooting"
            \/ \E word \in problem_words : In(Chars(word), lower(content)) THEN "high"
    ELSE IF content_type \in {"monitoring", "dashboard", "architecture"} THEN "medium"
    ELSE IF content_type \in {"connector", "integration"} THEN "medium"
    ELSE IF content_type \in {"ootb-assets", "cost-optimization"} THEN "low"
    ELSE "medium"

\* ','.join(tags) for tags given as literals
RECURSIVE JoinTags(_)
JoinTags(tags) ==
    IF tags = <<>> THEN <<>>
    ELSE IF Len(tags) = 1 THEN Chars(tags[1])
    ELSE Chars(tags[1]) \o <<",">> \o JoinTags(Tail(tags))

category_docs == "datadog-mulesoft-docs"

\* WebDocumentationProcessor.process_entry
process_entry(content) ==
    LET tt           == extract_title_and_topic(content)
        content_type == detect_content_type(content)
    IN  [question |-> generate_question_from_content(tt.title, content, content_type),
         answer   |-> clean_and_format_answer(content),
         category |-> Chars(category_docs),
         tags     |-> JoinTags(web_generate_tags(base_tags, tt.title, content,
                                                 content_type, tt.topic).tags),
         priority |-> Chars(web_determine_priority(content_type, content))]

----------------------------------------------------------------------------
(* Ticket synthesis: process_knowledge_base.py                             *)

\* tag_mapping, in the order of the dict
tag_mapping ==
    << [tag |-> "activation",      keywords |-> {"activation", "activate", "enable", "setup", "configure"}],
       [tag |-> "configuration",   keywords |-> {"config", "configure", "setup", "settings", "parameter"}],
       [tag |-> "integration",     keywords |-> {"integration", "integrate", "connect", "connection"}],
       [tag |-> "mulesoft",        keywords |-> {"mulesoft", "mule", "anypoint", "rtf", "cloudhub"}],
       [tag |-> "datadog",         keywords |-> {"datadog", "dd", "monitoring", "metrics", "traces"}],
       [tag |-> "troubleshooting", keywords |-> {"error", "issue", "problem", "troubleshoot", "debug"}],
       [tag |-> "authentication",  keywords |-> {"auth", "login", "credential", "token", "api key"}],
       [tag |-> "deployment",      keywords |-> {"deploy", "deployment", "runtime", "environment"}],
       [tag |-> "performance",     keywords |-> {"performance", "memory", "cpu", "optimization", "jvm"}],
       [tag |-> "network",         keywords |-> {"network", "connectivity", "port", "firewall", "proxy"}],
       [tag |-> "version",         keywords |-> {"version", "update", "upgrade", "compatibility"}],
       [tag |-> "logs",            keywords |-> {"log", "logging", "trace", "debug", "monitor"}] >>

\* any(keyword in content_text for keyword in keywords)
AnyIn(keywords, content_text) == \E keyword \in keywords : In(Chars(keyword), content_text)

RECURSIVE MatchedTags(_, _)
MatchedTags(i, content_text) ==
    IF i > Len(tag_mapping) THEN <<>>
    ELSE (IF AnyIn(tag_mapping[i].keywords, content_text)
          THEN <<tag_mapping[i].tag>> ELSE <<>>)
         \o MatchedTags(i + 1, content_text)

AppendIfMissing(tags, tag) == IF tag \in Range(tags) THEN tags ELSE Append(tags, tag)

MaxTicketTags == 5

generate_tags(title, description, problem, resolution) ==
    LET content_text == lower(title \o <<" ">> \o description \o <<" ">> \o problem
                              \o <<" ">> \o resolution)
        tags         == MatchedTags(1, content_text)
    IN  Take(AppendIfMissing(AppendIfMissing(tags, "datadog"), "mulesoft"), MaxTicketTags)

high_priority_keywords ==
    {"error", "fail", "crash", "critical", "urgent", "down", "outage",
     "security", "authentication", "authorization", "data loss"}

low_priority_keywords ==
    {"documentation", "reference", "example", "guide", "tutorial",
     "feature request", "enhancement", "nice to have"}

\* (determine_priority with the two tests in the other order.)
LowBeforeHigh(title, problem, resolution) ==
    LET content_text == lower(title \o <<" ">> \o problem \o <<" ">> \o resolution)
    IN  IF AnyIn(low_priority_keywords, content_text) THEN "low"
        ELSE IF AnyIn(high_priority_keywords, content_text) THEN "high"
        ELSE "medium"

determine_priority(title, problem, resolution) ==
    LET content_text == lower(title \o <<" ">> \o problem \o <<" ">> \o resolution)
    IN  IF AnyIn(high_priority_keywords, content_text) THEN "high"
        ELSE IF AnyIn(low_priority_keywords, content_text) THEN "low"
        ELSE "medium"

\* sep.join(parts) for a separator of several characters
RECURSIVE JoinWith(_, _)
JoinWith(parts, sep) ==
    IF parts = <<>> THEN <<>>
    ELSE IF Len(parts) = 1 THEN parts[1]
    ELSE parts[1] \o sep \o JoinWith(Tail(parts), sep)

\* (The question that repeats the problem also when it equals the title.)
QuestionPartsAlways(structured_data) ==
    (IF structured_data.title # <<>> THEN <<structured_data.title>> ELSE <<>>)
    \o (IF structured_data.problem # <<>> THEN <<structured_data.problem>> ELSE <<>>)

QuestionParts(structured_data) ==
    (IF structured_data.title # <<>> THEN <<structured_data.title>> ELSE <<>>)
    \o (IF /\ structured_data.problem # <<>>
           /\ structured_data.problem # structured_data.title
        THEN <<structured_data.problem>> ELSE <<>>)

AnswerParts(structured_data) ==
    (IF structured_data.description # <<>>
     THEN <<Chars("Overview: ") \o structured_data.description>> ELSE <<>>)
    \o (IF structured_data.problem # <<>>
        THEN <<Chars("Problem: ") \o structured_data.problem>> ELSE <<>>)
    \o (IF structured_data.resolution # <<>>
        THEN <<Chars("Resolution: ") \o structured_data.resolution>> ELSE <<>>)

create_qa_format(structured_data) ==
    [question |-> IF QuestionParts(structured_data) # <<>>
                  THEN JoinWith(QuestionParts(structured_data), Chars(" - "))
                  ELSE Chars("Datadog MuleSoft Integration Question"),
     answer   |-> IF AnswerParts(structured_data) # <<>>
                  THEN JoinWith(AnswerParts(structured_data), <<"\n", "\n">>)
                  ELSE Chars("Please refer to the documentation for more information.")]

category_tickets == "datadog-mulesoft"

\* process_knowledge_base: the entry made of one row's content.
processed_entry(content) ==
    LET structured == extract_structured_content(content)
        qa         == create_qa_format(structured)
    IN  [question |-> qa.question,
         answer   |-> qa.answer,
         category |-> Chars(category_tickets),
         tags     |-> JoinTags(generate_tags(structured.title, structured.description,
                                             structured.problem, structured.resolution)),
         priority |-> Chars(determine_priority(structured.title, structured.problem,
                                               structured.resolution))]

----------------------------------------------------------------------------
(* The encoding fixer step by step: process_files and fix_csv_file as the  *)
(* file system sees them                                                   *)

\* if analysis['rows_with_issues'] > 0: ... if not dry_run: fix_csv_file(...)
FixesInDryRun(analysis, dry_run) == analysis.rows_with_issues > 0

ShouldFix(analysis, dry_run) == analysis.rows_with_issues > 0 /\ ~dry_run

\* What an interrupted write can leave of the opened file: nothing, or the
\* header and some of the rows.
Truncations(file) ==
    {ZeroBytes} \cup {[file EXCEPT !.rows = SubSeq(file.rows, 1, n)] : n \in 0..Len(file.rows)}

----------------------------------------------------------------------------
(* Initial directories                                                     *)

\* Cell texts
Qa   == <<"a">>
QA   == <<"A", " ">>
Qb   == <<"b">>
Qsp  == <<" ">>
Ans  == <<"x">>
Ans2 == <<"y">>
Cat  == <<"c">>
Tag  == <<"t">>
High == <<"h","i","g","h">>

\* Rows that differ in the question: two spellings of one question, another
\* question, and a question that is empty after trimming.
QuestionRows ==
    { <<Qa,  Ans,  Cat, Tag, High>>,
      <<QA,  Ans2, Cat, Tag, High>>,
      <<Qb,  Ans,  Cat, Tag, High>>,
      <<Qsp, Ans,  Cat, Tag, High>> }

\* Rows that differ in what repair looks at.
RepairRows ==
    { <<Qa, Ans, Cat,     Tag,                       High>>,
      <<Qa, Ans, <<" ">>, Tag,                       <<" ","H","i","g","h">>>>,
      <<Qb, Ans, Cat,     <<" ","t",","," ",",","b">>, <<"u","r","g","e","n","t">>>>,
      <<Qb, Ans, <<>>,    <<",">>,                  <<>>>>,
      <<Qa, Ans, Cat,     <<>>,                     <<"l","o","w">>>> }

SeqsUpTo(S, n) == UNION {[1..k -> S] : k \in 0..n}

CorpusFile(rows) == [exists |-> TRUE, readable |-> TRUE, hdr |-> fieldnames, rows |-> rows]

NoResult == [title |-> <<>>, description |-> <<>>, problem |-> <<>>, resolution |-> <<>>]

NoCall ==
    [fn |-> "none", text |-> <<>>, fixed |-> <<>>, changes |-> <<>>, again |-> FALSE,
     result |-> NoResult, args |-> NoResult,
     given |-> [content_type |-> "", topic |-> ""]]

NoOp ==
    [op |-> "none", flag |-> FALSE, ret |-> "True", written |-> {}, modified |-> {},
     groups |-> <<>>, sources |-> <<>>, target |-> "", errors |-> {}, warnings |-> {},
     repeat |-> FALSE, analyzed |-> <<>>, backups |-> {},
     pc |-> "idle", todo |-> <<>>, rows |-> NoFile, copies |-> [f \in Names |-> NoFile]]

InitWith(RowsA, na, RowsB, nb) ==
    /\ \E ra \in SeqsUpTo(RowsA, na) : \E rb \in SeqsUpTo(RowsB, nb) :
          disk = [f \in Names |->
                    IF f = "a.csv" THEN CorpusFile(ra)
                    ELSE IF f = "b.csv" THEN CorpusFile(rb)
                    ELSE NoFile]
    /\ input = disk
    /\ last = NoOp
    /\ call = NoCall

\* Directories for the duplicate operations and for merge.
InitDuplicates == InitWith(QuestionRows, MaxRowsA, QuestionRows, MaxRowsB)

InitMerge == InitWith(QuestionRows, MaxRowsB, QuestionRows, MaxRowsA + 1)

\* Directories for validation and repair.
InitRepair == InitWith(RepairRows, MaxRowsA, RepairRows, MaxRepairRows)

\* Rows for directories that hold malformed files: a clean row, a row with an
\* invalid priority, a row with an empty question and a row shorter than the
\* header (its present cells are not empty).
Urgent == <<"u","r","g","e","n","t">>

FileRows ==
    { <<Qa,  Ans, Cat, Tag, High>>,
      <<Qb,  Ans, Cat, Tag, Urgent>>,
      <<Qsp, Ans, Cat, Tag, High>>,
      <<Qa,  Ans, Cat>> }

\* A file of blank lines only: csv.DictReader finds no header in it.
BlankLines == [exists |-> TRUE, readable |-> TRUE, hdr |-> <<>>, rows |-> <<<<>>>>]

\* A file without the priority column, and one with a column too many whose
\* first row has an empty category.
NoPriorityColumn ==
    [exists |-> TRUE, readable |-> TRUE, hdr |-> <<"question", "answer", "category", "tags">>,
     rows |-> <<<<Qa, Ans, Cat, Tag>>>>]

ExtraColumn ==
    [exists |-> TRUE, readable |-> TRUE,
     hdr |-> <<"question", "answer", "category", "tags", "priority", "notes">>,
     rows |-> <<<<Qb, Ans, <<>>, Tag, High, <<"n">>>>, <<Qa, Ans, Cat, Tag, High, <<>>>>>>]

MalformedFiles == {ZeroBytes, BlankLines, NoPriorityColumn, ExtraColumn}

\* Directories of two files, each malformed or a corpus of FileRows.
InitFiles ==
    /\ \E fa, fb \in MalformedFiles \cup {CorpusFile(r) : r \in SeqsUpTo(FileRows, MaxFileRows)} :
          disk = [f \in Names |->
                    IF f = "a.csv" THEN fa ELSE IF f = "b.csv" THEN fb ELSE NoFile]
    /\ input = disk
    /\ last = NoOp
    /\ call = NoCall

\* Directories with input errors: each of a.csv and b.csv is missing, of
\* zero bytes, unreadable, without a header, without the priority column, or a corpus of
\* a row with a trademark sign in the answer and a row with an empty
\* question and an invalid priority; m.csv is missing or holds the row
\* with the sign.
AnsTM == <<"x", "U+2122">>

InputRows ==
    { <<Qb,  AnsTM, Cat, Tag, High>>,
      <<Qsp, Ans,   Cat, Tag, Urgent>> }

BadFiles == {NoFile, ZeroBytes, Unreadable, BlankLines, NoPriorityColumn}

InitInput ==
    /\ \E fa, fb \in BadFiles \cup {CorpusFile(r) : r \in SeqsUpTo(InputRows, MaxInputRows)} :
       \E fm \in {NoFile, CorpusFile(<<<<Qb, AnsTM, Cat, Tag, High>>>>)} :
          disk = [f \in Names |->
                    IF f = "a.csv" THEN fa ELSE IF f = "b.csv" THEN fb ELSE fm]
    /\ input = disk
    /\ last = NoOp
    /\ call = NoCall

\* Texts for the character normalizer: up to MaxTextLen characters, three of
\* the table, one outside ASCII and outside the table, two of ASCII; and the
\* text cafe(TM) of the specification's scenario, and every pair of table
\* characters.
TextChars == {"U+00AE", "U+2122", "U+2014", "U+00E9", "a", "-"}

Cafe == <<"c", "a", "f", "U+00E9", "U+2122">>

NoDirectory ==
    /\ disk = [f \in Names |-> NoFile]
    /\ input = disk
    /\ last = NoOp

InitText ==
    /\ NoDirectory
    /\ \E t \in SeqsUpTo(TextChars, MaxTextLen) \cup {Cafe}
                \cup {<<character_replacements[i].char, character_replacements[j].char>> :
                         i, j \in DOMAIN character_replacements} :
          call = [NoCall EXCEPT !.text = t, !.fixed = t]

\* Text blobs for the extractor: the four labels in order, each one left out
\* or followed by a space, a value of up to MaxWords words and a newline or
\* a space.
RECURSIVE Words(_, _)
Words(w, n) == IF n = 0 THEN <<>> ELSE IF n = 1 THEN <<w>> ELSE <<w, " ">> \o Words(w, n - 1)

Labelled(label, w) ==
    {<<>>} \cup {label \o <<" ">> \o Words(w, n) \o sep :
                    n \in 0..MaxWords, sep \in {<<"\n">>, <<" ">>}}

Blobs ==
    {t \o d \o p \o r :
        t \in Labelled(<<"T","i","t","l","e",":">>, "X"),
        d \in Labelled(<<"D","e","s","c","r","i","p","t","i","o","n",":">>, "Y"),
        p \in Labelled(<<"P","r","o","b","l","e","m",":">>, "Z"),
        r \in Labelled(<<"R","e","s","o","l","u","t","i","o","n",":">>, "W")}

\* The blob of the specification's scenario, which ends without a newline.
Scenario1 ==
    <<"T","i","t","l","e",":"," ","X","\n">>
    \o <<"D","e","s","c","r","i","p","t","i","o","n",":"," ","Y","\n">>
    \o <<"P","r","o","b","l","e","m",":"," ","Z","\n">>
    \o <<"R","e","s","o","l","u","t","i","o","n",":"," ","W">>

\* Blobs with two labels out of the usual order, the first in upper case.
OutOfOrder ==
    {p \o t :
        p \in Labelled(<<"P","R","O","B","L","E","M",":">>, "Z"),
        t \in Labelled(<<"T","i","t","l","e",":">>, "X")}
    \cup {r \o d :
        r \in Labelled(<<"R","E","S","O","L","U","T","I","O","N",":">>, "W"),
        d \in Labelled(<<"D","e","s","c","r","i","p","t","i","o","n",":">>, "Y")}

InitExtract ==
    /\ NoDirectory
    /\ \E content \in Blobs \cup OutOfOrder \cup {Scenario1} :
          call = [NoCall EXCEPT !.text = content]

\* Raw contents for documentation synthesis: empty and whitespace-only
\* contents, one line, or two lines, each line a word that carries a content
\* type marker, a topic, a problem word or nothing of the kind; and two
\* labelled blobs of tickets.
DocWords ==
    {Chars(w) : w \in {"Overview", "configuration", "Installation", "connector",
                       "Integration", "monitor", "Dashboard", "troubleshoot",
                       "System Architecture", "OOTB", "out of the box",
                       "Cost Optimization", "Guide", "error", "CloudWatch",
                       "APM", "Mule"}}
    \cup {Chars("Datadog") \o <<"U+2122">>}

DocContents ==
    {<<>>, <<" ">>, <<"\n", " ">>, Scenario1,
     Chars("Title: Outage") \o <<"\n">> \o Chars("Resolution: see the guide")}
    \cup DocWords
    \cup {a \o <<"\n">> \o b : a, b \in DocWords}

\* Ticket fields: each of title, description, problem and resolution is
\* empty or one of five phrases.
TicketWords ==
    {<<>>} \cup {Chars(w) : w \in {"Setup Debug", "connect", "Error login", "guide",
                                   "anypoint metrics"}}

TicketInputs ==
    [title : TicketWords, description : TicketWords, problem : TicketWords,
     resolution : TicketWords]

ContentTypes ==
    {content_type_rules[i].type : i \in DOMAIN content_type_rules} \cup {"documentation"}

Topics == {topic_rules[i].topic : i \in DOMAIN topic_rules} \cup {"integration", "general"}

InitSynthesis ==
    /\ NoDirectory
    /\ \/ \E content \in DocContents : call = [NoCall EXCEPT !.text = content]
       \/ \E structured \in TicketInputs : call = [NoCall EXCEPT !.args = structured]

\* Body texts for the answer formatter: up to MaxParagraphLen characters of
\* a letter, a line break, a space and a trademark sign.
InitAnswer ==
    /\ NoDirectory
    /\ \E content \in SeqsUpTo({"a", "\n", " ", "U+2122"}, MaxParagraphLen) :
          call = [NoCall EXCEPT !.text = content]

\* Directories for runs that mix the operations.
Init == InitWith(QuestionRows \cup RepairRows, MaxRowsA, QuestionRows \cup RepairRows, MaxRowsA)

----------------------------------------------------------------------------
(* Operations: one command of either tool per step                         *)

\* The whole directory is read (glob), or only the files named.
Whole == disk

Only(files) == [f \in Names |-> IF f \in files THEN disk[f] ELSE NoFile]

Record(l, d, read) ==
    /\ disk' = d
    /\ input' = read
    /\ last' = l
    /\ UNCHANGED call

\* (\E r \in {e} : ... binds the result of one run of the operation.)
FindDuplicates ==
    \E all \in {get_all_entries(disk)} :
        Record([NoOp EXCEPT !.op = "find_duplicates",
                            !.ret = IF QuestionRaises(all) THEN "AttributeError" ELSE "True",
                            !.groups = IF QuestionRaises(all) THEN <<>>
                                       ELSE find_duplicates(disk)],
               disk, Whole)

RemoveDuplicates(dry_run) ==
    \E order \in Orders(Keys(get_all_entries(disk))) :
    \E r \in {remove_duplicates(disk, dry_run, order)} :
        Record([NoOp EXCEPT !.op = "remove_duplicates", !.flag = dry_run,
                            !.ret = r.ret, !.written = r.written, !.groups = r.groups],
               r.disk, Whole)

ValidateAndFix(fix) ==
    \E r \in {validate_and_fix(disk, fix)} :
        Record([NoOp EXCEPT !.op = "validate_and_fix", !.flag = fix, !.ret = r.ret,
                            !.written = r.written, !.modified = r.modified,
                            !.repeat = /\ last.op = "validate_and_fix"
                                       /\ last.flag /\ last.ret = "True"],
               r.disk, Whole)

\* The merge commands of the model: the target is not one of the sources.
SourceLists ==
    { <<"a.csv">>, <<"a.csv", "b.csv">>, <<"b.csv", "a.csv">>, <<"b.csv", "b.csv">>,
      <<"a.csv", "m.csv">> }

MergeFiles(source_files, target_file, remove_dups) ==
    \E r \in {merge_files(disk, source_files, target_file, remove_dups)} :
        /\ ~(target_file \in Range(source_files) /\ disk[target_file].exists)
        /\ Record([NoOp EXCEPT !.op = "merge_files", !.flag = remove_dups,
                               !.ret = r.ret, !.written = r.written,
                               !.sources = source_files, !.target = target_file],
                  r.disk, Only(Range(source_files)))

ValidateAll ==
    \E r \in {validate_all(disk)} :
        Record([NoOp EXCEPT !.op = "validate_all", !.ret = r.ret, !.groups = r.groups,
                            !.errors = r.errors, !.warnings = r.warnings],
               disk, Whole)

Merge ==
    \E source_files \in SourceLists : \E remove_dups \in BOOLEAN :
        MergeFiles(source_files, "m.csv", remove_dups)

\* fix_text applied to the text the last call returned.
FixText ==
    /\ \E r \in {fix_text(call.fixed)} :
          call' = [NoCall EXCEPT !.fn = "fix_text", !.text = call.fixed,
                                 !.fixed = r.text, !.changes = r.changes,
                                 !.again = (call.fn = "fix_text")]
    /\ UNCHANGED <<disk, input, last>>

\* extract_structured_content applied to a blob not yet extracted.
ExtractStructuredContent ==
    /\ call.fn = "none"
    /\ call' = [call EXCEPT !.fn = "extract_structured_content",
                            !.result = extract_structured_content(call.text)]
    /\ UNCHANGED <<disk, input, last>>

\* The file lists the fixer is run on.
PathLists == { <<"a.csv", "b.csv", "m.csv">>, <<"b.csv", "a.csv">> }

ProcessFiles(file_paths, dry_run) ==
    \E r \in {process_files(disk, file_paths, dry_run)} :
        Record([NoOp EXCEPT !.op = "process_files", !.flag = dry_run,
                            !.sources = file_paths,
                            !.errors = {<<f, 0, "file not found">> : f \in r.not_found}
                                       \cup {<<f, 0, "error analyzing">> : f \in r.not_analyzed},
                            !.analyzed = r.analyzed, !.backups = r.backups,
                            !.written = Range(r.files_processed)],
               r.disk, Only(Range(file_paths)))

\* One call of a function of documentation synthesis on the raw content.
DetectContentType ==
    /\ call.fn = "none"
    /\ call' = [NoCall EXCEPT !.fn = "detect_content_type", !.text = call.text,
                              !.result = detect_content_type(call.text)]
    /\ UNCHANGED <<disk, input, last>>

CleanAndFormatAnswer ==
    /\ call.fn = "none"
    /\ call' = [NoCall EXCEPT !.fn = "clean_and_format_answer", !.text = call.text,
                              !.result = clean_and_format_answer(call.text)]
    /\ UNCHANGED <<disk, input, last>>

WebGenerateTags(content_type, topic) ==
    /\ call.fn = "none"
    /\ call' = [NoCall EXCEPT
                  !.fn = "web_generate_tags", !.text = call.text,
                  !.given = [content_type |-> content_type, topic |-> topic],
                  !.result = web_generate_tags(base_tags,
                                 extract_title_and_topic(call.text).title,
                                 call.text, content_type, topic)]
    /\ UNCHANGED <<disk, input, last>>

WebDeterminePriority(content_type) ==
    /\ call.fn = "none"
    /\ call' = [NoCall EXCEPT
                  !.fn = "web_determine_priority", !.text = call.text,
                  !.given = [content_type |-> content_type, topic |-> ""],
                  !.result = web_determine_priority(content_type, call.text)]
    /\ UNCHANGED <<disk, input, last>>

ProcessEntry ==
    /\ call.fn = "none"
    /\ call' = [NoCall EXCEPT !.fn = "process_entry", !.text = call.text,
                              !.result = process_entry(call.text)]
    /\ UNCHANGED <<disk, input, last>>

\* One call of a function of ticket synthesis on the structured fields, or
\* of the whole row pipeline on the raw content.
GenerateTags ==
    /\ call.fn = "none"
    /\ call' = [NoCall EXCEPT
                  !.fn = "generate_tags", !.args = call.args,
                  !.result = generate_tags(call.args.title, call.args.description,
                                           call.args.problem, call.args.resolution)]
    /\ UNCHANGED <<disk, input, last>>

DeterminePriority ==
    /\ call.fn = "none"
    /\ call' = [NoCall EXCEPT
                  !.fn = "determine_priority", !.args = call.args,
                  !.result = determine_priority(call.args.title, call.args.problem,
                                                call.args.resolution)]
    /\ UNCHANGED <<disk, input, last>>

CreateQaFormat ==
    /\ call.fn = "none"
    /\ call' = [NoCall EXCEPT !.fn = "create_qa_format", !.args = call.args,
                              !.result = create_qa_format(call.args)]
    /\ UNCHANGED <<disk, input, last>>

ProcessRow ==
    /\ call.fn = "none"
    /\ call' = [NoCall EXCEPT !.fn = "process_knowledge_base", !.text = call.text,
                              !.result = processed_entry(call.text)]
    /\ UNCHANGED <<disk, input, last>>

\* process_files entered: the results dictionary is empty and the loop is at
\* the first path.
StartProcessFiles(file_paths, dry_run) ==
    /\ last.op = "none"
    /\ Record([NoOp EXCEPT !.op = "process_files", !.flag = dry_run,
                           !.sources = file_paths, !.todo = file_paths,
                           !.pc = "analyze"],
              disk, Only(Range(file_paths)))

\* One turn of the loop up to the call of fix_csv_file: a missing path and
\* a file whose analysis returned None are passed over, a file without
\* issues is counted, and a file with issues is fixed unless dry_run.
AnalyzeFile ==
    /\ last.pc = "analyze"
    /\ last.todo # <<>>
    /\ LET f        == Head(last.todo)
           analysis == analyze_csv_file(disk[f])
       IN  last' =
             IF ~disk[f].exists
             THEN [last EXCEPT !.errors = @ \cup {<<f, 0, "file not found">>},
                               !.todo = Tail(@)]
             ELSE IF ~analysis.ok
             THEN [last EXCEPT !.errors = @ \cup {<<f, 0, "error analyzing">>},
                               !.todo = Tail(@)]
             ELSE IF ShouldFix(analysis, last.flag)
             THEN [last EXCEPT !.analyzed = Append(@, f), !.pc = "backup"]
             ELSE [last EXCEPT !.analyzed = Append(@, f), !.todo = Tail(@)]
    /\ UNCHANGED <<disk, input, call>>

\* fix_csv_file, backup=True: shutil.copy2(file_path, backup_path).
CreateBackup ==
    /\ last.pc = "backup"
    /\ LET f == Head(last.todo)
       IN  last' = [last EXCEPT !.copies[f] = disk[f], !.backups = @ \cup {f},
                                !.pc = "read"]
    /\ UNCHANGED <<disk, input, call>>

\* fix_csv_file: the rows are read and fixed in memory.
ReadAndFixRows ==
    /\ last.pc = "read"
    /\ last' = [last EXCEPT !.rows = fix_csv_file(disk[Head(last.todo)]), !.pc = "open"]
    /\ UNCHANGED <<disk, input, call>>

\* fix_csv_file: open(file_path, 'w') empties the file.
OpenForWriting ==
    /\ last.pc = "open"
    /\ disk' = [disk EXCEPT ![Head(last.todo)] = ZeroBytes]
    /\ last' = [last EXCEPT !.pc = "write"]
    /\ UNCHANGED <<input, call>>

\* fix_csv_file: writeheader and writerows go through, the file is closed
\* and True returned; process_files records the path and goes on.
WriteFixedFile ==
    /\ last.pc = "write"
    /\ LET f == Head(last.todo)
       IN  /\ disk' = [disk EXCEPT ![f] = last.rows]
           /\ last' = [last EXCEPT !.written = @ \cup {f}, !.rows = NoFile,
                                   !.todo = Tail(@), !.pc = "analyze"]
    /\ UNCHANGED <<input, call>>

\* fix_csv_file: the write raises (the except branch returns False) and
\* leaves a part of the new content; process_files goes on.
WriteFails ==
    /\ last.pc = "write"
    /\ LET f == Head(last.todo)
       IN  /\ \E left \in Truncations(last.rows) \ {last.rows} :
                 disk' = [disk EXCEPT ![f] = left]
           /\ last' = [last EXCEPT !.errors = @ \cup {<<f, 0, "error fixing">>},
                                   !.rows = NoFile, !.todo = Tail(@), !.pc = "analyze"]
    /\ UNCHANGED <<input, call>>

\* process_files returns the results.
ReturnResults ==
    /\ last.pc = "analyze"
    /\ last.todo = <<>>
    /\ last' = [last EXCEPT !.pc = "done"]
    /\ UNCHANGED <<disk, input, call>>

NextDuplicates ==
    \/ FindDuplicates
    \/ \E dry_run \in BOOLEAN : RemoveDuplicates(dry_run)
    \/ ValidateAll

NextRepair ==
    \/ \E fix \in BOOLEAN : ValidateAndFix(fix)
    \/ ValidateAll

NextMerge == Merge

NextText == FixText

NextExtract == ExtractStructuredContent

NextFiles ==
    \/ ValidateAll
    \/ \E fix \in BOOLEAN : ValidateAndFix(fix)
    \/ \E dry_run \in BOOLEAN : RemoveDuplicates(dry_run)
    \/ \E remove_dups \in BOOLEAN : MergeFiles(<<"a.csv", "b.csv">>, "m.csv", remove_dups)

NextInput ==
    \/ ValidateAll
    \/ \E file_paths \in PathLists : \E dry_run \in BOOLEAN : ProcessFiles(file_paths, dry_run)

NextSynthesis ==
    \/ DetectContentType
    \/ \E content_type \in ContentTypes : \E topic \in Topics :
          WebGenerateTags(content_type, topic)
    \/ \E content_type \in ContentTypes : WebDeterminePriority(content_type)
    \/ ProcessEntry
    \/ GenerateTags
    \/ DeterminePriority
    \/ CreateQaFormat
    \/ ProcessRow

NextAnswer == CleanAndFormatAnswer

NextFixer ==
    \/ \E file_paths \in PathLists : \E dry_run \in BOOLEAN :
          StartProcessFiles(file_paths, dry_run)
    \/ AnalyzeFile
    \/ CreateBackup
    \/ ReadAndFixRows
    \/ OpenForWriting
    \/ WriteFixedFile
    \/ WriteFails
    \/ ReturnResults

Next ==
    \/ FindDuplicates
    \/ \E dry_run \in BOOLEAN : RemoveDuplicates(dry_run)
    \/ \E fix \in BOOLEAN : ValidateAndFix(fix)
    \/ Merge
    \/ ValidateAll

\* Any sequence of commands on a small directory.
Spec == Init /\ [][Next]_vars

\* The duplicate commands, on directories whose rows differ in the question.
SpecDuplicates == InitDuplicates /\ [][NextDuplicates]_vars

\* Merge commands, on the same kind of directories.
SpecMerge == InitMerge /\ [][NextMerge]_vars

\* Validation and repair, on directories whose rows differ in what repair reads.
SpecRepair == InitRepair /\ [][NextRepair]_vars

\* The character normalizer, applied again and again to a text.
SpecText == InitText /\ [][NextText]_vars

\* The extractor, applied to a text blob.
SpecExtract == InitExtract /\ [][NextExtract]_vars

\* Every command, on directories that hold malformed files and short rows.
SpecFiles == InitFiles /\ [][NextFiles]_vars

\* Validation and encoding fixes on directories with input errors.
SpecInput == InitInput /\ [][NextInput]_vars

\* Calls of the synthesis functions on bounded contents and ticket fields.
SpecSynthesis == InitSynthesis /\ [][NextSynthesis]_vars

\* Calls of the answer formatter on bounded body texts.
SpecAnswer == InitAnswer /\ [][NextAnswer]_vars

\* One run of the encoding fixer, step by step, on directories with input
\* errors.
SpecFixer == InitInput /\ [][NextFixer]_vars

----------------------------------------------------------------------------
(* Vocabulary of the properties: corpora, locations, normalized questions  *)

\* The entries of corpus f of directory d.
Corpus(d, f) == load_csv_file(d[f])

\* The normalized question of an entry: trimmed and lower-cased.
Normalized(entry) == lower(strip(get(entry, "question")))

Locations(d) == UNION {{<<f, i>> : i \in 1..Len(Corpus(d, f))} : f \in Names}

EntryAt(d, loc) == Corpus(d, loc[1])[loc[2]]

Position(f) == CHOOSE k \in 1..Len(ScanOrder) : ScanOrder[k] = f

ScannedBefore(l, m) ==
    \/ Position(l[1]) < Position(m[1])
    \/ l[1] = m[1] /\ l[2] < m[2]

\* The non-empty normalized questions of a directory, and where each occurs.
Questions(d) == {Normalized(EntryAt(d, l)) : l \in Locations(d)} \ {<<>>}

SameQuestion(d, q) == {l \in Locations(d) : Normalized(EntryAt(d, l)) = q}

FirstSeen(d, q) ==
    CHOOSE l \in SameQuestion(d, q) :
        \A m \in SameQuestion(d, q) : m = l \/ ScannedBefore(l, m)

RECURSIVE IsSubSeq(_, _)
IsSubSeq(s, t) ==
    IF s = <<>> THEN TRUE
    ELSE IF t = <<>> THEN FALSE
    ELSE IF Head(s) = Head(t) THEN IsSubSeq(Tail(s), Tail(t))
    ELSE IsSubSeq(s, Tail(t))

Removal == last.op = "remove_duplicates" /\ ~last.flag

DryRun == last.op = "remove_duplicates" /\ last.flag

----------------------------------------------------------------------------
(* Duplicate removal                                                       *)

\* C1: after remove_duplicates(dry_run=False) reports success, every
\* non-empty normalized question of the directory occurs in exactly one
\* entry, and that entry is the one first seen in scan order; also when
\* there are several groups or a question occurs more than twice.
C1_OneEntryPerQuestion ==
    (Removal /\ last.ret = "True") =>
        \A q \in Questions(input) :
            /\ Cardinality(SameQuestion(disk, q)) = 1
            /\ \A l \in SameQuestion(disk, q) :
                  /\ l[1] = FirstSeen(input, q)[1]
                  /\ EntryAt(disk, l) = EntryAt(input, FirstSeen(input, q))

\* The entries of corpus f that no group lists after its first location:
\* those with an empty question, a unique question, or first seen.
RECURSIVE Protected(_, _, _)
Protected(d, f, i) ==
    IF i > Len(Corpus(d, f)) THEN <<>>
    ELSE (IF \/ Normalized(Corpus(d, f)[i]) = <<>>
             \/ FirstSeen(d, Normalized(Corpus(d, f)[i])) = <<f, i>>
          THEN <<Corpus(d, f)[i]>> ELSE <<>>)
         \o Protected(d, f, i + 1)

\* C2: remove_duplicates(dry_run=False) deletes only entries at a non-first
\* location of a group: every unique or first-seen entry is still there with
\* the same field values, and the survivors of a corpus keep their order.
C2_OnlyLaterOccurrencesDeleted ==
    Removal =>
        \A f \in Names :
            /\ IsSubSeq(Protected(input, f, 1), Corpus(disk, f))
            /\ IsSubSeq(Corpus(disk, f), Corpus(input, f))

\* C3: remove_duplicates(dry_run=True) changes no corpus file and saves
\* nothing.
C3_DryRunLeavesFiles ==
    DryRun => (disk = input /\ last.written = {})

C3_Witness ==
    /\ DryRun /\ last.ret = "True"
    /\ \E k \in 1..Len(last.groups) : Len(last.groups[k].locs) = 3

\* Question q occurs exactly once in each of two corpora, and no other
\* question of the directory occurs twice.
OncePerCorpus(d, q) ==
    /\ Cardinality(SameQuestion(d, q)) = 2
    /\ Cardinality({l[1] : l \in SameQuestion(d, q)}) = 2
    /\ \A p \in Questions(d) \ {q} : Cardinality(SameQuestion(d, p)) = 1

\* C4: when two corpora each hold exactly one entry with the same normalized
\* question, find_duplicates yields exactly one group, with two locations;
\* remove_duplicates(dry_run=False) then leaves exactly one entry with that
\* question, in the corpus scanned first.
C4_OneGroupAcrossCorpora ==
    \A q \in Questions(input) :
        OncePerCorpus(input, q) =>
            /\ (last.op \in {"find_duplicates", "remove_duplicates"}) =>
                  /\ Len(last.groups) = 1
                  /\ last.groups[1].q = q
                  /\ Len(last.groups[1].locs) = 2
                  /\ Range(last.groups[1].locs) = SameQuestion(input, q)
            /\ Removal =>
                  /\ last.ret = "True"
                  /\ SameQuestion(disk, q) = {FirstSeen(input, q)}
                  /\ EntryAt(disk, FirstSeen(input, q))
                        = EntryAt(input, FirstSeen(input, q))

C4_Witness ==
    /\ Removal
    /\ \E q \in Questions(input) :
          /\ OncePerCorpus(input, q)
          /\ \E l \in SameQuestion(input, q) :
                /\ l # FirstSeen(input, q)
                /\ get(EntryAt(input, l), "question")
                      # get(EntryAt(input, FirstSeen(input, q)), "question")
                /\ Len(Corpus(input, l[1])) > 1

\* The groups of a duplicate report over directory d, whose rows are counted
\* from `first`, partition the locations by normalized question.
GroupsPartition(groups, d, first) ==
    LET At(loc) == <<loc[1], loc[2] - first + 1>>
        Places == {<<k, m>> \in (1..Len(groups)) \X (1..MaxRowsA + MaxRowsB + 2) :
                      m <= Len(groups[k].locs)}
    IN  /\ \A k \in 1..Len(groups) : Len(groups[k].locs) >= 2
        /\ \A x, y \in Places :
              x # y => groups[x[1]].locs[x[2]] # groups[y[1]].locs[y[2]]
        /\ \A x, y \in Places :
              (x[1] = y[1] /\ x[2] < y[2]) =>
                  ScannedBefore(groups[x[1]].locs[x[2]], groups[y[1]].locs[y[2]])
        /\ \A x \in Places :
              /\ At(groups[x[1]].locs[x[2]]) \in Locations(d)
              /\ groups[x[1]].q # <<>>
              /\ Normalized(EntryAt(d, At(groups[x[1]].locs[x[2]]))) = groups[x[1]].q
        /\ \A q \in Questions(d) :
              Cardinality(SameQuestion(d, q)) >= 2 =>
                  \E k \in 1..Len(groups) :
                      {At(groups[k].locs[m]) : m \in 1..Len(groups[k].locs)}
                          = SameQuestion(d, q)

\* C5: duplicate detection (find_duplicates of the management tool,
\* check_for_duplicates of the validator) partitions the locations by
\* normalized question: two entries with the same non-empty normalized
\* question are in the same group, a group has at least two locations, no
\* location is reported twice, the locations of a group are in scan order,
\* and an entry with an empty question is in no group.
C5_GroupsPartitionLocations ==
    /\ (last.op \in {"find_duplicates", "remove_duplicates"})
          => GroupsPartition(last.groups, input, 1)
    /\ (last.op = "validate_all") => GroupsPartition(last.groups, input, 2)

C5_Witness ==
    /\ last.op = "validate_all"
    /\ Cardinality({l \in Locations(input) : Normalized(EntryAt(input, l)) = <<>>}) = 2
    /\ \E k \in 1..Len(last.groups) :
          {l[1] : l \in Range(last.groups[k].locs)} = {"a.csv", "b.csv"}

----------------------------------------------------------------------------
(* Merge                                                                   *)

RECURSIVE Concatenation(_, _)
Concatenation(d, files) ==
    IF files = <<>> THEN <<>>
    ELSE Corpus(d, Head(files)) \o Concatenation(d, Tail(files))

\* The entries whose non-empty normalized question an earlier entry has.
LaterDuplicates(entries) ==
    {i \in 1..Len(entries) :
        /\ Normalized(entries[i]) # <<>>
        /\ \E j \in 1..(i - 1) : Normalized(entries[j]) = Normalized(entries[i])}

RECURSIVE WithoutLaterDuplicates(_, _)
WithoutLaterDuplicates(entries, i) ==
    IF i > Len(entries) THEN <<>>
    ELSE (IF i \in LaterDuplicates(entries) THEN <<>> ELSE <<entries[i]>>)
         \o WithoutLaterDuplicates(entries, i + 1)

QuestionsOf(entries) == {Normalized(entries[i]) : i \in 1..Len(entries)} \ {<<>>}

\* Corpus A has 3 entries, corpus B has 2, neither repeats a question, and
\* they share exactly one question.
ShareOneQuestion(A, B) ==
    /\ Len(A) = 3 /\ Len(B) = 2
    /\ LaterDuplicates(A) = {} /\ LaterDuplicates(B) = {}
    /\ Cardinality(QuestionsOf(A) \cap QuestionsOf(B)) = 1

MergeDone == last.op = "merge_files" /\ last.flag /\ last.ret = "True"

\* C6: merge_files with duplicate removal writes to the target the
\* concatenation of the sources in the given order, without every entry
\* whose non-empty normalized question an earlier entry already has; no two
\* entries of the target share a non-empty normalized question, entries with
\* an empty question are all kept, and merging A (3 entries) with B (2
\* entries) that share exactly one question gives 4 entries.
C6_MergeKeepsFirstOccurrences ==
    MergeDone =>
        LET merged == Corpus(disk, last.target)
            all    == Concatenation(input, last.sources)
        IN  /\ merged = WithoutLaterDuplicates(all, 1)
            /\ LaterDuplicates(merged) = {}
            /\ Cardinality({i \in 1..Len(merged) : Normalized(merged[i]) = <<>>})
                  = Cardinality({i \in 1..Len(all) : Normalized(all[i]) = <<>>})
            /\ (/\ Len(last.sources) = 2
                /\ ShareOneQuestion(Corpus(input, last.sources[1]),
                                    Corpus(input, last.sources[2])))
                  => Len(merged) = 4

C6_Witness ==
    /\ MergeDone
    /\ last.sources = <<"a.csv", "b.csv">>
    /\ ShareOneQuestion(Corpus(input, "a.csv"), Corpus(input, "b.csv"))
    /\ Len(Corpus(disk, last.target)) = 4
    /\ Cardinality({i \in 1..4 : Normalized(Corpus(disk, last.target)[i]) = <<>>}) = 2

----------------------------------------------------------------------------
(* Validation and repair                                                   *)

Repair == last.op = "validate_and_fix" /\ last.flag

\* C7: a second validate_and_fix(fix=True), run right after one that
\* reported success, modifies no entry and rewrites no file.
C7_RepairIdempotent ==
    (Repair /\ last.repeat) =>
        (last.modified = {} /\ last.written = {} /\ disk = input)

C7_Witness ==
    /\ Repair /\ last.repeat /\ last.ret = "True"
    /\ \E l \in Locations(disk) : get(EntryAt(disk, l), "category") = general
    /\ \E l \in Locations(disk) : get(EntryAt(disk, l), "priority") = medium

NoBlankTag(tags) == \A t \in Range(split(tags, ",")) : strip(t) # <<>>

\* What repair establishes for a field other than tags, and what it keeps.
RepairedBut(tags_ok(_)) ==
    /\ Locations(disk) = Locations(input)
    /\ \A l \in Locations(disk) :
          /\ strip(get(EntryAt(disk, l), "category")) # <<>>
          /\ lower(strip(get(EntryAt(disk, l), "priority"))) \in valid_priorities
          /\ tags_ok(get(EntryAt(disk, l), "tags"))
          /\ get(EntryAt(disk, l), "question") = get(EntryAt(input, l), "question")
          /\ get(EntryAt(disk, l), "answer") = get(EntryAt(input, l), "answer")

\* C8 as the specification words it: after validate_and_fix(fix=True), the
\* tags of every entry have no blank member when split on commas (with a
\* non-empty category, a valid priority, question and answer untouched).
C8_NoBlankTagMember ==
    Repair => RepairedBut(NoBlankTag)

\* C8: after validate_and_fix(fix=True), every entry has a non-empty
\* category, a priority that is valid once trimmed and lower-cased, and tags
\* that are either empty once trimmed or have no blank member when split on
\* commas; question and answer are as they were.
C8_Repaired ==
    Repair => RepairedBut(LAMBDA tags : strip(tags) = <<>> \/ NoBlankTag(tags))

C8_Witness ==
    /\ Repair /\ last.ret = "True"
    /\ \E l \in Locations(disk) :
          /\ strip(get(EntryAt(input, l), "category")) = <<>>
          /\ get(EntryAt(input, l), "category") # <<>>
          /\ get(EntryAt(disk, l), "category") = general
    /\ \E l \in Locations(disk) :
          /\ ~NoBlankTag(get(EntryAt(input, l), "tags"))
          /\ get(EntryAt(disk, l), "tags") # <<>>
          /\ NoBlankTag(get(EntryAt(disk, l), "tags"))

\* C9: during validate_and_fix(fix=True) a corpus file is rewritten exactly
\* when one of its entries was modified by a fix in this pass; the modified
\* files are on disk when the command reports success.
C9_RewrittenIffModified ==
    Repair =>
        /\ last.written = last.modified
        /\ \A f \in Names :
              /\ (f \in last.written) <=> (Corpus(disk, f) # Corpus(input, f))
              /\ (f \notin last.written) => (disk[f] = input[f])

C9_Witness ==
    /\ Repair /\ last.ret = "True"
    /\ last.written = {"a.csv"}
    /\ Corpus(disk, "b.csv") # <<>>

\* C10: validation without repair never mutates: validate_and_fix(fix=False)
\* and the validator's validate_all leave every corpus file as it was.
C10_ValidationReadsOnly ==
    (\/ last.op = "validate_and_fix" /\ ~last.flag
     \/ last.op = "validate_all") =>
        (disk = input /\ last.written = {} /\ last.modified = {})

C10_Witness ==
    /\ last.op = "validate_and_fix" /\ ~last.flag /\ last.ret = "False"
    /\ \E l \in Locations(disk) : strip(get(EntryAt(disk, l), "category")) = <<>>
    /\ \E l \in Locations(disk) : ~NoBlankTag(get(EntryAt(disk, l), "tags"))

----------------------------------------------------------------------------
(* Verdicts of validation                                                  *)

\* C11: a run of validate_all fails (does not end with success) if and only
\* if an error-level issue was logged during the run; warnings alone never
\* make it fail.
C11_FailureIffErrorLogged ==
    (last.op = "validate_all") => ((last.ret # "True") <=> (last.errors # {}))

\* The error-level conditions of an entry: a required field that is missing
\* or empty, a priority outside high/medium/low, a tag list with a blank
\* member.
FieldEmpty(entry, k) ==
    \/ k \notin DOMAIN entry
    \/ entry[k] = None
    \/ strip(entry[k]) = <<>>

HasErrorLevelIssue(entry) ==
    \/ \E k \in required_fields : FieldEmpty(entry, k)
    \/ /\ ~FieldEmpty(entry, "priority")
       /\ lower(strip(entry["priority"])) \notin valid_priorities
    \/ /\ ~FieldEmpty(entry, "tags")
       /\ \E t \in Range(split(strip(entry["tags"]), ",")) : strip(t) = <<>>

\* C12: validate_and_fix(fix=False) fails (does not end with success)
\* whenever some loaded entry has an error-level condition.
C12_ReportFailsOnErrorLevelIssue ==
    (/\ last.op = "validate_and_fix" /\ ~last.flag
     /\ \E l \in Locations(input) : HasErrorLevelIssue(EntryAt(input, l)))
        => (last.ret # "True")

----------------------------------------------------------------------------
(* Saved files                                                             *)

Saving == last.op \in {"validate_and_fix", "remove_duplicates", "merge_files"}

\* C13: every successful save leaves a file that starts with the header
\* question,answer,category,tags,priority, followed by one row per entry,
\* also for an empty list of entries; so every file written by a successful
\* repair, remove-duplicates or merge starts with that header, and a
\* repaired file has one row per entry it had.
C13_SavedFileStartsWithHeader ==
    (Saving /\ last.ret = "True") =>
        \A f \in last.written :
            /\ disk[f].exists
            /\ disk[f].hdr = fieldnames
            /\ (last.op = "validate_and_fix")
                  => (Len(disk[f].rows) = Len(Corpus(input, f)))

HasExtraColumn(file) == file.exists /\ ~(Range(file.hdr) \subseteq required_fields)

\* The five canonical cells of an entry, as a saved row.
CanonicalCells(entry) ==
    [k \in 1..5 |->
        IF fieldnames[k] \in DOMAIN entry /\ entry[fieldnames[k]] # None
        THEN entry[fieldnames[k]] ELSE <<>>]

\* C14: saving entries that carry a field outside the five canonical ones
\* (a corpus loaded from a file with an extra column) succeeds: the command
\* reports success and the file written holds the five canonical fields of
\* every entry, without the extra one.
C14_ExtraFieldDroppedOnSave ==
    /\ (last.op = "validate_and_fix" /\ last.flag) =>
          \A f \in last.written :
              HasExtraColumn(input[f]) =>
                  /\ last.ret = "True"
                  /\ disk[f].hdr = fieldnames
                  /\ Len(disk[f].rows) = Len(Corpus(input, f))
    /\ (/\ last.op = "merge_files" /\ ~last.flag
        /\ \E f \in Range(last.sources) : HasExtraColumn(input[f])
        /\ \A f \in Range(last.sources) : input[f].exists) =>
          /\ last.ret = "True"
          /\ disk[last.target].hdr = fieldnames
          /\ disk[last.target].rows
                = [i \in 1..Len(Concatenation(input, last.sources)) |->
                      CanonicalCells(Concatenation(input, last.sources)[i])]

\* Merging one source without duplicate removal saves what was loaded.
LoadAndSave ==
    /\ last.op = "merge_files" /\ ~last.flag
    /\ Len(last.sources) = 1
    /\ input[last.sources[1]].exists

\* C15: round trip: loading a corpus whose entries have only the five
\* canonical fields, also one with zero entries, and saving the loaded
\* entries gives a corpus equal to the original: same header, same entries
\* in the same order with the same field values.
C15_LoadSaveRoundTrip ==
    (LoadAndSave /\ input[last.sources[1]].hdr = fieldnames) =>
        /\ last.ret = "True"
        /\ disk[last.target] = input[last.sources[1]]

----------------------------------------------------------------------------
(* Short rows                                                              *)

\* A partial record: a row with fewer cells than the header.
IsPartial(entry) == \E k \in DOMAIN entry : entry[k] = None

PassesStructure(file) ==
    file.exists /\ file.hdr # <<>> /\ required_fields \subseteq Range(file.hdr)

\* C17: a row with fewer cells than the header is loaded as a partial
\* record and treated as a row-level error: validate_all collects an
\* empty-field error for each required field the row lacks and goes on to
\* validate the rows after it, and repair, duplicate detection and
\* validation in the management tool do not raise.
C17_ShortRowIsRowLevelError ==
    /\ (last.op = "validate_all") =>
          \A f \in Names : \A i \in 1..Len(Corpus(input, f)) :
              (/\ PassesStructure(input[f])
               /\ \E j \in 1..i : IsPartial(Corpus(input, f)[j])) =>
                  /\ \A k \in required_fields :
                        FieldEmpty(Corpus(input, f)[i], k)
                            => (<<f, i + 1, "empty " \o k>> \in last.errors)
                  /\ (/\ ~FieldEmpty(Corpus(input, f)[i], "priority")
                      /\ lower(strip(Corpus(input, f)[i]["priority"]))
                            \notin valid_priorities)
                        => (<<f, i + 1, "invalid priority">> \in last.errors)
    /\ (last.op \in {"validate_and_fix", "find_duplicates", "remove_duplicates"})
          => (last.ret # "AttributeError")

----------------------------------------------------------------------------
(* The character normalizer                                                *)

TableChars == {character_replacements[i].char : i \in DOMAIN character_replacements}

Reversed(table) == [i \in 1..Len(table) |-> table[Len(table) + 1 - i]]

\* C18: the output of fix_text contains no character of the substitution
\* table, and fix_text applied to it returns it unchanged with no change
\* reported; the rules in the opposite order give the same text, because no
\* replacement contains a character that a rule matches.
C18_FixTextIdempotent ==
    (call.fn = "fix_text") =>
        /\ Range(call.fixed) \cap TableChars = {}
        /\ fix_text(call.fixed) = [text |-> call.fixed, changes |-> <<>>]
        /\ call.again => (call.fixed = call.text /\ call.changes = <<>>)
        /\ FixTextWith(Reversed(character_replacements), call.text).text = call.fixed
        /\ \A i \in DOMAIN character_replacements :
              Range(character_replacements[i].replacement) \cap TableChars = {}

C18_Witness ==
    /\ call.fn = "fix_text" /\ call.again
    /\ Len(call.text) = 4 * MaxTextLen

\* Every character replaced by what the table gives for it, the others kept.
RECURSIVE Substituted(_)
Substituted(text) ==
    IF text = <<>> THEN <<>>
    ELSE (IF Head(text) \in TableChars
          THEN character_replacements[
                   CHOOSE i \in DOMAIN character_replacements :
                       character_replacements[i].char = Head(text)].replacement
          ELSE <<Head(text)>>)
         \o Substituted(Tail(text))

\* The table rows whose character occurs in the text, in table order.
Present(text) ==
    SelectSeq([i \in DOMAIN character_replacements |-> i],
              LAMBDA i : character_replacements[i].char \in Range(text))

\* C19: fix_text reports one change per distinct table character of the
\* input, in table order, with the number of its occurrences in the input,
\* and leaves the other characters untouched; an empty input gives an empty
\* output and no change; cafe + U+2122 gives cafe(TM) and one change.
C19_OneChangePerTableCharacter ==
    (call.fn = "fix_text") =>
        /\ call.fixed = Substituted(call.text)
        /\ Len(call.changes) = Len(Present(call.text))
        /\ \A n \in 1..Len(call.changes) :
              /\ call.changes[n].char = character_replacements[Present(call.text)[n]].char
              /\ call.changes[n].replacement
                    = character_replacements[Present(call.text)[n]].replacement
              /\ call.changes[n].count
                    = Cardinality({j \in 1..Len(call.text) :
                                      call.text[j] = call.changes[n].char})
        /\ (call.text = <<>>) => (call.fixed = <<>> /\ call.changes = <<>>)
        /\ (call.text = Cafe) =>
              /\ call.fixed = <<"c", "a", "f", "U+00E9", "(", "T", "M", ")">>
              /\ Len(call.changes) = 1
              /\ call.changes[1].char = "U+2122"

C19_Witness ==
    /\ call.fn = "fix_text"
    /\ call.text = <<"U+2122", "U+00AE", "U+2122">>
    /\ Len(call.changes) = 2

----------------------------------------------------------------------------
(* The extractor                                                           *)

\* A blob with the four labels in order, each on its own line and followed
\* by a value; `end` is what follows the last value ("" or a newline).
OwnLines(x, y, z, w, end) ==
    <<"T","i","t","l","e",":"," ">> \o x \o <<"\n">>
    \o <<"D","e","s","c","r","i","p","t","i","o","n",":"," ">> \o y \o <<"\n">>
    \o <<"P","r","o","b","l","e","m",":"," ">> \o z \o <<"\n">>
    \o <<"R","e","s","o","l","u","t","i","o","n",":"," ">> \o w \o end

\* C20: for a blob with the labels Title:, Description:, Problem: and
\* Resolution: in that order, each on its own line and followed by a value,
\* extract_structured_content returns each field equal to its own value;
\* "Title: X\nDescription: Y\nProblem: Z\nResolution: W" gives X, Y, Z, W.
C20_EachLabelYieldsItsValue ==
    (call.fn = "extract_structured_content") =>
        \A nt, nd, np, nr \in 1..MaxWords : \A end \in {<<>>, <<"\n">>} :
            (call.text = OwnLines(Words("X", nt), Words("Y", nd),
                                  Words("Z", np), Words("W", nr), end))
                => (call.result = [title       |-> Words("X", nt),
                                   description |-> Words("Y", nd),
                                   problem     |-> Words("Z", np),
                                   resolution  |-> Words("W", nr)])

----------------------------------------------------------------------------
(* Input errors                                                            *)

\* A file with an input error: it is there, and it is unreadable, empty,
\* without a header or without one of the required columns.
BadInput(file) == file.exists /\ ~PassesStructure(file)

\* The directory without its files with an input error.
WithoutBad(d) == [f \in Names |-> IF BadInput(d[f]) THEN NoFile ELSE d[f]]

\* The files a row-level error, a row-level warning or a duplicate location
\* of the last validation names.
ContentChecked ==
    {e[1] : e \in {x \in last.errors \cup last.warnings : x[2] > 0}}
    \cup UNION {{last.groups[k].locs[j][1] : j \in DOMAIN last.groups[k].locs} :
                    k \in DOMAIN last.groups}

HasTableChar(file) ==
    \E i \in DOMAIN file.rows : \E j \in DOMAIN file.rows[i] :
        \E n \in DOMAIN file.rows[i][j] : file.rows[i][j][n] \in TableChars

----------------------------------------------------------------------------
(* Completion of validation                                                *)

\* C30: validate_all runs to completion and returns a success or failure
\* status for every directory content, also when every structurally valid
\* file has a correct header and zero data rows: no step of the run raises.
C30_ValidateAllReturnsStatus ==
    (last.op = "validate_all") => (last.ret \in {"True", "False"})

----------------------------------------------------------------------------
(* Labels in any subset and order                                          *)

Labels == {TitleLabel, DescriptionLabel, ProblemLabel, ResolutionLabel}

\* The text from just after the first occurrence of the label up to the
\* next label of the four or the end of the text, trimmed; empty when the
\* label does not occur.
UpToNextLabel(s, label) ==
    IF Occurrences(s, label) = {} THEN <<>>
    ELSE LET p   == Min(Occurrences(s, label)) + Len(label)
             nxt == Min({i \in p..Len(s) : \E l \in Labels : MatchesAt(s, i, l)}
                        \cup {Len(s) + 1})
         IN  strip(SubSeq(s, p, nxt - 1))

\* C21: for a blob with any subset of the four labels in any order, matched
\* without regard to case, each field is the text from just after its label
\* up to the next recognized label or the end of the text (trimmed), and
\* the empty string when its label is absent; so no value holds another
\* label or that label's content.
C21_ValueEndsAtNextLabel ==
    (call.fn = "extract_structured_content") =>
        call.result = [title       |-> UpToNextLabel(call.text, TitleLabel),
                       description |-> UpToNextLabel(call.text, DescriptionLabel),
                       problem     |-> UpToNextLabel(call.text, ProblemLabel),
                       resolution  |-> UpToNextLabel(call.text, ResolutionLabel)]

----------------------------------------------------------------------------
(* Classification of documentation                                         *)

\* The content types in their fixed order of precedence.
TypeOrder ==
    <<"overview", "configuration", "installation", "connector", "integration",
      "monitoring", "dashboard", "troubleshooting", "architecture", "ootb-assets",
      "cost-optimization">>

\* A marker of the i-th content type occurs in the upper-cased text.
MarkerOccurs(i, text) ==
    \E m \in content_type_rules[i].markers : In(Chars(m), upper(text))

\* C22: detect_content_type returns the earliest type, in the order
\* overview, configuration, installation, connector, integration,
\* monitoring, dashboard, troubleshooting, architecture, ootb-assets,
\* cost-optimization, whose marker occurs in the upper-cased text, and
\* 'documentation' exactly when no marker occurs.
C22_FirstMatchingTypeWins ==
    (call.fn = "detect_content_type") =>
        /\ (call.result = "documentation")
              <=> (\A i \in DOMAIN TypeOrder : ~MarkerOccurs(i, call.text))
        /\ \A i \in DOMAIN TypeOrder :
              (MarkerOccurs(i, call.text) /\ \A j \in 1..(i - 1) : ~MarkerOccurs(j, call.text))
                  => (call.result = TypeOrder[i])

\* A text whose first line carries the marker of connector and whose second
\* line the marker of integration: the type is connector.
C22_Witness ==
    /\ call.fn = "detect_content_type"
    /\ call.text = Chars("connector") \o <<"\n">> \o Chars("Integration")
    /\ call.result = "connector"

----------------------------------------------------------------------------
(* Tags of documentation                                                   *)

\* The elements of a list that did not occur earlier in it, in order.
RECURSIVE FirstOccurrences(_, _)
FirstOccurrences(s, i) ==
    IF i > Len(s) THEN <<>>
    ELSE (IF \E j \in 1..(i - 1) : s[j] = s[i] THEN <<>> ELSE <<s[i]>>)
         \o FirstOccurrences(s, i + 1)

\* C23: the web-doc generate_tags returns the three base tags in their
\* fixed order, then the content-type tag if new, then the topic tag if new,
\* then the secondary keyword tags in rule order, no tag twice (the first
\* occurrence kept), cut to at most 6 tags; the shared base tag list is as
\* it was before the call.
C23_BaseTagsFirstNoRepeatAtMostSix ==
    (call.fn = "web_generate_tags") =>
        LET tags      == call.result.tags
            title     == extract_title_and_topic(call.text).title
            candidates ==
                <<"datadog", "mulesoft", "documentation">>
                \o <<call.given.content_type, call.given.topic>>
                \o TechnologyTags(1, lower(call.text), lower(title))
            expected  == FirstOccurrences(candidates, 1)
        IN  /\ Len(tags) >= 3 /\ Len(tags) <= 6
            /\ SubSeq(tags, 1, 3) = <<"datadog", "mulesoft", "documentation">>
            /\ \A i, j \in DOMAIN tags : (i # j) => (tags[i] # tags[j])
            /\ Len(tags) = (IF Len(expected) < 6 THEN Len(expected) ELSE 6)
            /\ \A i \in DOMAIN tags : tags[i] = expected[i]
            /\ call.result.base_tags = <<"datadog", "mulesoft", "documentation">>

\* A call with a new content type, a new topic and two keyword tags: the
\* seventh tag, dashboard, is cut.
C23_Witness ==
    /\ call.fn = "web_generate_tags"
    /\ call.text = Chars("connector") \o <<"\n">> \o Chars("Dashboard")
    /\ call.given = [content_type |-> "overview", topic |-> "apm"]
    /\ call.result.tags
          = <<"datadog", "mulesoft", "documentation", "overview", "apm", "connector">>

----------------------------------------------------------------------------
(* Priority                                                                *)

\* The lower-cased title, problem and resolution of the ticket of the call.
TicketText ==
    lower(call.args.title \o <<" ">> \o call.args.problem \o <<" ">> \o call.args.resolution)

\* C24: in the ticket variant the priority is 'high' whenever a
\* high-severity keyword occurs in the lower-cased title, problem and
\* resolution, also when a low-severity keyword occurs too, 'low' only when
\* a low-severity keyword occurs and no high-severity one, and 'medium'
\* otherwise; in the doc variant it is 'high' whenever the content type is
\* overview, installation, configuration or troubleshooting; it is always
\* one of high, medium, low.
C24_HighSeverityTakesPrecedence ==
    /\ (call.fn = "determine_priority") =>
          LET high == \E k \in high_priority_keywords : In(Chars(k), TicketText)
              low  == \E k \in low_priority_keywords : In(Chars(k), TicketText)
          IN  /\ high => (call.result = "high")
              /\ (call.result = "low") <=> (low /\ ~high)
              /\ (~high /\ ~low) => (call.result = "medium")
              /\ call.result \in {"high", "medium", "low"}
    /\ (call.fn = "web_determine_priority") =>
          /\ (call.given.content_type \in
                 {"overview", "installation", "configuration", "troubleshooting"})
                => (call.result = "high")
          /\ call.result \in {"high", "medium", "low"}

\* A ticket with a high-severity keyword in the title and a low-severity
\* keyword in the problem: the priority is high.
C24_Witness ==
    /\ call.fn = "determine_priority"
    /\ call.args.title = Chars("Error login")
    /\ call.args.problem = Chars("guide")
    /\ call.result = "high"

----------------------------------------------------------------------------
(* Question and answer of a ticket                                         *)

\* A section of the answer: its label and its text, nothing for no text.
Section(label, text) == IF text = <<>> THEN <<>> ELSE Chars(label) \o text

BlankLineIf(cond) == IF cond THEN <<"\n", "\n">> ELSE <<>>

\* C25: the ticket strategy never produces an empty question or answer: the
\* question is 'title - problem' when both are non-empty and differ, the
\* single non-empty one (the title when they are equal) otherwise, and the
\* fixed fallback when both are empty; the answer is the non-empty sections
\* among 'Overview: description', 'Problem: problem' and 'Resolution:
\* resolution' in that order joined by a blank line, and the fixed
\* refer-to-the-documentation string when all three are empty.
C25_QuestionAndAnswerNeverEmpty ==
    (call.fn = "create_qa_format") =>
        LET t == call.args.title
            d == call.args.description
            p == call.args.problem
            r == call.args.resolution
            q == call.result.question
            a == call.result.answer
        IN  /\ q # <<>> /\ a # <<>>
            /\ (t # <<>> /\ p # <<>> /\ t # p) => (q = t \o Chars(" - ") \o p)
            /\ (t # <<>> /\ (p = <<>> \/ p = t)) => (q = t)
            /\ (t = <<>> /\ p # <<>>) => (q = p)
            /\ (t = <<>> /\ p = <<>>) => (q = Chars("Datadog MuleSoft Integration Question"))
            /\ (d # <<>> \/ p # <<>> \/ r # <<>>) =>
                  (a = Section("Overview: ", d)
                       \o BlankLineIf(d # <<>> /\ (p # <<>> \/ r # <<>>))
                       \o Section("Problem: ", p)
                       \o BlankLineIf(p # <<>> /\ r # <<>>)
                       \o Section("Resolution: ", r))
            /\ (d = <<>> /\ p = <<>> /\ r = <<>>) =>
                  (a = Chars("Please refer to the documentation for more information."))

\* A ticket whose problem repeats its title and which has no description:
\* the question is the title alone and the answer has two sections.
C25_Witness ==
    /\ call.fn = "create_qa_format"
    /\ call.args = [title |-> Chars("connect"), description |-> <<>>,
                    problem |-> Chars("connect"), resolution |-> Chars("guide")]
    /\ call.result.question = Chars("connect")
    /\ call.result.answer
          = Chars("Problem: connect") \o <<"\n", "\n">> \o Chars("Resolution: guide")

----------------------------------------------------------------------------
(* Paragraphs of the answer                                                *)

LineBreaks(s) == Cardinality({i \in DOMAIN s : s[i] = "\n"})

\* C26: the answer keeps the paragraph structure of the body: the
\* non-blank lines of the input, whether a single newline or a run of blank
\* lines lies between them, are separated by exactly one blank line in the
\* answer, the answer never has 3 or more consecutive line breaks, and the
\* trademark, registered and copyright glyphs are removed.
C26_AnswerKeepsParagraphs ==
    (call.fn = "clean_and_format_answer") =>
        LET lines == NonBlankLines(split(RemoveGlyphs(call.text), "\n"))
        IN  /\ \A i \in DOMAIN call.result : call.result[i] \notin Glyphs
            /\ ~In(<<"\n", "\n", "\n">>, call.result)
            /\ (lines # <<>>) => (LineBreaks(call.result) = 2 * (Len(lines) - 1))
            /\ \A i \in DOMAIN call.result :
                  (call.result[i] = "\n") =>
                      \/ (i > 1 /\ call.result[i - 1] = "\n")
                      \/ (i < Len(call.result) /\ call.result[i + 1] = "\n")

----------------------------------------------------------------------------
(* Tags of a ticket                                                        *)

\* C27: the ticket generate_tags always has both base tags, 'datadog' and
\* 'mulesoft', in the list it returns, whatever keyword tags matched, and
\* returns at most 5 tags.
C27_BaseTagsAlwaysIncluded ==
    (call.fn = "generate_tags") =>
        /\ "datadog" \in Range(call.result)
        /\ "mulesoft" \in Range(call.result)
        /\ Len(call.result) <= 5

----------------------------------------------------------------------------
(* Synthesized entries                                                     *)

\* C29: every entry produced by either synthesis strategy, for every raw
\* content including empty and whitespace-only content, has all five
\* fields, a question and an answer that are non-empty after trimming, a
\* non-empty category, a priority among high, medium and low, and tags that
\* are a non-empty comma-joined list without a blank member.
C29_SynthesizedEntryIsValid ==
    (call.fn \in {"process_entry", "process_knowledge_base"}) =>
        /\ DOMAIN call.result = required_fields
        /\ strip(call.result.question) # <<>>
        /\ strip(call.result.answer) # <<>>
        /\ call.result.category # <<>>
        /\ call.result.priority \in valid_priorities
        /\ call.result.tags # <<>>
        /\ \A t \in Range(split(call.result.tags, ",")) : strip(t) # <<>>

----------------------------------------------------------------------------
(* The encoding fixer and the files it rewrites                            *)

\* The run of process_files is under way or over.
FixerRan == last.op = "process_files" /\ last.pc # "idle"

\* The file is as the run found it, or its backup copy is.
IntactOrBackedUp(f) ==
    disk[f] = input[f] \/ (f \in last.backups /\ last.copies[f] = input[f])

\* The run ended as the loop of process_files run at once ends, when no
\* write failed.
FixerStepsAgree ==
    (FixerRan /\ last.pc = "done" /\ ~\E e \in last.errors : e[3] = "error fixing") =>
        LET r == process_files(input, last.sources, last.flag)
        IN  /\ \A f \in Range(last.sources) : disk[f] = r.disk[f]
            /\ last.analyzed = r.analyzed
            /\ last.backups = r.backups
            /\ last.written = Range(r.files_processed)

\* One step of the fixer against the claim: the four parts below.
FixerStepIsSafe ==
    \* a file is written only in fix mode, only when the analysis of the
    \* file found a row with a character of the table, and only after the
    \* backup copy holds the content the run found
    /\ \A f \in Names :
          (disk'[f] # disk[f]) =>
              /\ last.op = "process_files" /\ ~last.flag
              /\ analyze_csv_file(input[f]).ok
              /\ analyze_csv_file(input[f]).rows_with_issues > 0
              /\ HasTableChar(input[f])
              /\ f \in last.backups /\ last.copies[f] = input[f]
    \* a dry run writes no file and creates no backup
    /\ (last'.op = "process_files" /\ last'.flag) =>
          /\ disk' = disk
          /\ last'.backups = {}
          /\ \A f \in Names : last'.copies[f] = NoFile
    \* at every point each file of the run is intact or backed up
    /\ (last'.op = "process_files") =>
          \A f \in Range(last'.sources) : IntactOrBackedUp(f)'

\* C28: the encoding fixer writes a file only in fix mode and only when its
\* analysis found at least one row with a substitution-table character; in
\* dry-run mode no file is written and no backup is created; in fix mode the
\* backup copy holding the original content exists before the original file
\* is opened for rewriting, so at every point of the run either the original
\* file is intact or a complete backup of it exists.
C28_WritesOnlyBehindBackup == [][FixerStepIsSafe]_vars

\* A run in fix mode whose write of a.csv failed: the file is neither as
\* the run found it nor fixed, and a.csv.backup holds what the run found;
\* the run went on to b.csv.
C28_Witness ==
    /\ FixerRan /\ ~last.flag
    /\ <<"a.csv", 0, "error fixing">> \in last.errors
    /\ disk["a.csv"] # input["a.csv"]
    /\ disk["a.csv"] # fix_csv_file(input["a.csv"])
    /\ disk["a.csv"].hdr # <<>>
    /\ last.copies["a.csv"] = input["a.csv"]
    /\ "b.csv" \in Range(last.analyzed)

=============================================================================
